---- MODULE Spec2Model ----
(***************************************************************************)
(* State-machine model of the crypto trading backend:                      *)
(*   - core/coingecko.py     : CoinGeckoClient (tenacity retry + TTL cache) *)
(*   - utils/exceptions.py   : CoinGeckoAPIError, handle_api_error          *)
(*   - apis/api_coingecko.py : routes that delegate to handle_api_error     *)
(*   - main.py               : handlers with a catch-all "except Exception" *)
(*   - services/coinbase_service.py : CoinbaseService.initialize            *)
(*   - main.py, utils/database_utils.py, dependencies.py : the handlers    *)
(*     and helpers that read and write the PostgreSQL tables               *)
(*   - dependencies.py, utils/rate_limiting.py, core/cache.py : the        *)
(*     in-memory and the Redis-backed rate limiters                        *)
(*   - services/proton_service.py : token prices of ProtonWalletService    *)
(*                                                                         *)
(* A Python str is modelled as a sequence of tokens: the token ":" is the  *)
(* colon character, every other token is a maximal colon-free segment.     *)
(* Two strings are equal exactly when their token sequences are equal.     *)
(***************************************************************************)
EXTENDS Integers, Sequences, FiniteSets, TLC

VARIABLES
    now,        \* time.time(), in whole seconds
    cache,      \* CoinGeckoClient._cache : key -> [ts, val], with history field
                \* by = the call (SDK method + arguments) that stored the entry
    lastStore,  \* history: per call, time and value of its last store since clear_cache
    pc,         \* per request thread: position in the route / client method
    rq,         \* per request thread: the request being served
    att,        \* per request thread: tenacity attempt_number
    exc,        \* per request thread: exception propagating out of the client method
    ret,        \* per request thread: value returned by the client method
    resp,       \* per request thread: HTTP response of the route
    obs,        \* per request thread: history of the current call
    served,     \* number of requests accepted so far
    cbLock,     \* CoinbaseService._lock : owner task or NoTask
    cbInitialized,   \* CoinbaseService._initialized
    cbInitializing,  \* CoinbaseService._initializing
    cbPc,       \* per task: position inside initialize()
    cbRet,      \* per task: value initialize() returns (pending until "done")
    cbObs,      \* history: inits = executions of "_initialized = True",
                \* retest = a client was created while _initialized was set,
                \* entered[t] = _initialized when t last acquired the lock
    dbNow,      \* datetime.now() of the database handlers, in minutes
    usedType,   \* column type of verification_codes.used in the deployed table
    users,      \* table users : sequence of rows, id = position
    codes,      \* table verification_codes : sequence of rows, id = position
    sessions,   \* table sessions : set of rows
    balances,   \* table user_balances : set of rows
    notif,      \* table notification_settings : set of rows
    transactions,  \* table transactions : set of rows
    crypto,     \* table crypto_balances : set of rows
    hPc,        \* per handler process: the statement it is about to run
    hLoc,       \* per handler process: handler name, arguments and locals
    hResp,      \* per handler process: outcome of its last handler
    hCalls,     \* number of handler invocations so far
    dbObs,      \* history of the database handlers
    request_logs,  \* dependencies._request_logs : client ip -> accepted timestamps
    redis,      \* the Redis server behind core.cache.redis_client, and whether
                \* RedisCache.redis_client is set
    price_cache \* ProtonWalletService.price_cache : cache key -> data, timestamp

clientVars == <<now, cache, lastStore, pc, rq, att, exc, ret, resp, obs, served>>
cbVars == <<cbLock, cbInitialized, cbInitializing, cbPc, cbRet, cbObs>>
dbVars == <<dbNow, usedType, users, codes, sessions, balances, notif,
            transactions, crypto, hPc, hLoc, hResp, hCalls, dbObs>>
memVars == <<request_logs, redis, price_cache>>
vars == <<now, cache, lastStore, pc, rq, att, exc, ret, resp, obs, served,
          cbLock, cbInitialized, cbInitializing, cbPc, cbRet, cbObs,
          dbNow, usedType, users, codes, sessions, balances, notif,
          transactions, crypto, hPc, hLoc, hResp, hCalls, dbObs,
          request_logs, redis, price_cache>>

----------------------------------------------------------------------------
(* Bounds of the model *)

\* the clock does not advance beyond MaxTime
MaxTime == 64
\* number of requests served in one behaviour
MaxRequests == 3

----------------------------------------------------------------------------
(* Python strings and values *)

Colon == ":"

\* str(v) for the argument values the routes pass: a str is itself, a bool
\* renders as True / False, None renders as None
PyStr(v) ==
    CASE v.t = "str"  -> v.s
      [] v.t = "bool" -> IF v.s = <<"1">> THEN <<"True">> ELSE <<"False">>
      [] v.t = "none" -> <<"None">>
      [] OTHER        -> v.s

StrV(s) == [t |-> "str", s |-> s]
TrueV == [t |-> "bool", s |-> <<"1">>]
FalseV == [t |-> "bool", s |-> <<"0">>]

\* ":".join(parts)
RECURSIVE Join(_)
Join(parts) ==
    IF parts = <<>> THEN <<>>
    ELSE IF Len(parts) = 1 THEN Head(parts)
    ELSE Head(parts) \o <<Colon>> \o Join(Tail(parts))

\* every keyword name used by the cached methods, in the order sorted() gives
KwNamesSorted ==
    << "community_data", "developer_data", "id", "ids", "include_24hr_change",
       "include_24hr_vol", "include_last_updated_at", "localization",
       "market_data", "order", "page", "per_page", "price_change_percentage",
       "sparkline", "tickers", "vs_currencies", "vs_currency" >>

\* sorted(kwargs.items()) : the keyword names present, in sorted order
SortedKeys(kwargs) ==
    SelectSeq(KwNamesSorted, LAMBDA k : k \in DOMAIN kwargs)

\* CoinGeckoClient._get_cache_key(method, *args, **kwargs)
get_cache_key(method, args, kwargs) ==
    LET keys == SortedKeys(kwargs)
        key_parts ==
            <<  <<method>>  >>
            \o [i \in 1..Len(args) |-> PyStr(args[i])]
            \o [i \in 1..Len(keys) |-> <<keys[i]>> \o <<Colon>> \o PyStr(kwargs[keys[i]])]
    IN  Join(key_parts)

----------------------------------------------------------------------------
(* CoinGeckoClient : the facade methods *)

\* the request threads (FastAPI runs each sync route in a worker thread)
Threads == {"t1", "t2"}

\* self._cache_duration
CacheDuration == 60

\* stop_after_attempt(3) of the general methods, stop_after_attempt(2) of the
\* trading methods
GeneralAttempts == 3
TradingAttempts == 2

\* the facade methods that go through _cached_call
CachedOps ==
    { "get_price", "get_coins_list", "get_coin_market", "get_trading_prices",
      "get_coin_simple_data", "get_dashboard_data" }

\* the facade methods decorated with stop_after_attempt(2)
TradingOps == CachedOps \cup {"get_coin_market_chart_by_id", "get_coin_ohlc"}

\* method.__name__ of the SDK method each cached facade method hands to _cached_call
SdkMethod(op) ==
    CASE op = "get_price"            -> "get_price"
      [] op = "get_coins_list"       -> "get_coins_list"
      [] op = "get_coin_market"      -> "get_coins_markets"
      [] op = "get_trading_prices"   -> "get_price"
      [] op = "get_coin_simple_data" -> "get_coin_by_id"
      [] op = "get_dashboard_data"   -> "get_price"
      [] OTHER                       -> op

\* the keyword arguments each cached facade method hands to _cached_call;
\* r.a1 and r.a2 are the strings the caller passed
OpKwargs(op, r) ==
    CASE op = "get_price" ->
            ("ids" :> StrV(r.a1)) @@ ("vs_currencies" :> StrV(r.a2))
            @@ ("include_24hr_change" :> TrueV)
      [] op = "get_trading_prices" ->
            ("ids" :> StrV(r.a1)) @@ ("vs_currencies" :> StrV(<<"usd">>))
            @@ ("include_24hr_vol" :> TrueV) @@ ("include_24hr_change" :> TrueV)
            @@ ("include_last_updated_at" :> TrueV)
      [] op = "get_dashboard_data" ->
            ("ids" :> StrV(r.a1)) @@ ("vs_currencies" :> StrV(<<"usd">>))
            @@ ("include_24hr_change" :> TrueV)
            @@ ("include_last_updated_at" :> TrueV)
      [] op = "get_coin_simple_data" ->
            ("id" :> StrV(r.a1)) @@ ("localization" :> FalseV)
            @@ ("tickers" :> FalseV) @@ ("market_data" :> TrueV)
            @@ ("community_data" :> FalseV) @@ ("developer_data" :> FalseV)
            @@ ("sparkline" :> FalseV)
      [] op = "get_coin_market" ->
            ("vs_currency" :> StrV(r.a1)) @@ ("order" :> StrV(r.a2))
            @@ ("per_page" :> [t |-> "int", s |-> <<"100">>])
            @@ ("page" :> [t |-> "int", s |-> <<"1">>])
            @@ ("sparkline" :> FalseV)
            @@ ("price_change_percentage" :> StrV(<<"1h,24h,7d">>))
            @@ ("ids" :> [t |-> "none", s |-> <<>>])
      [] OTHER -> <<>>

\* the identity of a cached call: SDK method name and arguments
CallId(op, r) == [m |-> SdkMethod(op), kw |-> OpKwargs(op, r)]

\* cache_key computed in _cached_call (no positional arguments are ever passed)
CacheKeyOf(op, r) == get_cache_key(SdkMethod(op), <<>>, OpKwargs(op, r))

\* wait_exponential(multiplier=1, min=lo, max=hi) after attempt number n
RECURSIVE Pow2(_)
Pow2(n) == IF n <= 0 THEN 1 ELSE 2 * Pow2(n - 1)

Max2(a, b) == IF a >= b THEN a ELSE b
Min2(a, b) == IF a <= b THEN a ELSE b

wait_exponential(lo, hi, n) == Max2(Max2(0, lo), Min2(1 * Pow2(n - 1), hi))

WaitSeconds(op, n) ==
    IF op \in TradingOps THEN wait_exponential(2, 5, n)
    ELSE wait_exponential(4, 10, n)

stop_after_attempt(op) ==
    IF op \in TradingOps THEN TradingAttempts ELSE GeneralAttempts

\* the text each facade method puts before str(e) in its CoinGeckoAPIError
Prefix(op) ==
    CASE op = "get_ping"             -> <<"Error en ping", Colon, " ">>
      [] op = "get_coins_categories" -> <<"Error al obtener categorias", Colon, " ">>
      [] op = "get_price"            -> <<"Error al obtener precio", Colon, " ">>
      [] op = "get_coins_list"       -> <<"Error al obtener lista de criptomonedas", Colon, " ">>
      [] op = "get_coin_market"      -> <<"Error al obtener mercado de criptomonedas", Colon, " ">>
      [] op = "get_trading_prices"   -> <<"Error al obtener precios para trading", Colon, " ">>
      [] op = "get_coin_simple_data" -> <<"Error al obtener datos simples", Colon, " ">>
      [] op = "get_dashboard_data"   -> <<"Error al obtener datos del dashboard", Colon, " ">>
      [] OTHER                       -> <<"Error", Colon, " ">>

----------------------------------------------------------------------------
(* Exceptions and their translation at the HTTP boundary *)

\* an exception object: cls its class, status/detail the HTTPException fields,
\* msg the message of a plain Exception, inner the class of the exception a
\* RetryError wraps
NoExc == [cls |-> "none", status |-> 0, detail |-> <<>>, msg |-> <<>>, inner |-> "none"]

PlainException(cls, m) ==
    [cls |-> cls, status |-> 0, detail |-> <<>>, msg |-> m, inner |-> "none"]

HTTPException(status, detail) ==
    [cls |-> "HTTPException", status |-> status, detail |-> detail, msg |-> <<>>,
     inner |-> "none"]

\* class CoinGeckoAPIError(HTTPException): status_code = 503
CoinGeckoAPIError(detail) ==
    [cls |-> "CoinGeckoAPIError", status |-> 503, detail |-> detail, msg |-> <<>>,
     inner |-> "none"]

\* tenacity.RetryError(last_attempt), raised when the stop condition is met and
\* the decorator was not given reraise=True
RetryError(e) ==
    [cls |-> "RetryError", status |-> 0, detail |-> <<>>, msg |-> <<>>, inner |-> e.cls]

\* isinstance(e, HTTPException)
IsHTTPException(e) == e.cls \in {"HTTPException", "CoinGeckoAPIError", "NotFoundError"}

StatusStr(n) ==
    CASE n = 400 -> "400" [] n = 401 -> "401" [] n = 404 -> "404"
      [] n = 500 -> "500" [] n = 503 -> "503" [] OTHER -> "0"

\* str(e): the message of a plain exception; "<status>: <detail>" for an
\* HTTPException; "RetryError[<Future at .. state=finished raised Cls>]" for a
\* RetryError
PyStrExc(e) ==
    CASE e.cls = "RetryError" ->
            <<"RetryError[<Future at 0x.. state=finished raised ", e.inner, ">]">>
      [] IsHTTPException(e) -> <<StatusStr(e.status), Colon, " ">> \o e.detail
      [] OTHER -> e.msg

\* variant: every error becomes a 500 that carries str(error)
handle_api_error_str(error, message) ==
    HTTPException(500, message \o <<Colon, " ">> \o PyStrExc(error))

\* handle_api_error(error, message): the HTTPException it raises
handle_api_error(error, message) ==
    IF error.cls = "CoinGeckoAPIError"
    THEN HTTPException(503, message \o <<Colon, " ">> \o error.detail)
    ELSE IF IsHTTPException(error)
    THEN error
    ELSE HTTPException(500, message \o <<Colon, " ", "Error interno del servidor">>)

\* the body of a facade method: try: return sdk(...) except Exception as e:
\* raise CoinGeckoAPIError(f"<prefix>{str(e)}")
FacadeError(op, e) == CoinGeckoAPIError(Prefix(op) \o PyStrExc(e))

\* tenacity's decision after attempt number n of method op raised e:
\* "retry" (sleep, then call again) or "raise" with the exception that escapes
RetryDecision(op, n, e) ==
    IF n >= stop_after_attempt(op)
    THEN [act |-> "raise", e |-> RetryError(e)]
    ELSE [act |-> "retry", e |-> e]

----------------------------------------------------------------------------
(* The TTL cache of CoinGeckoClient *)

\* variant: the entry expires one second early
is_cache_valid_short(c, key, t) ==
    /\ key \in DOMAIN c
    /\ (t - c[key].ts) < CacheDuration - 1

\* variant: non-strict comparison, the entry is still valid at age 60
is_cache_valid_le(c, key, t) ==
    /\ key \in DOMAIN c
    /\ (t - c[key].ts) <= CacheDuration

\* CoinGeckoClient._is_cache_valid(cache_key), evaluated at time t
is_cache_valid(c, key, t) ==
    /\ key \in DOMAIN c
    /\ (t - c[key].ts) < CacheDuration

\* self._cache[cache_key] = (time.time(), result) in _cached_call
cache_store(c, key, t, v, by) ==
    (key :> [ts |-> t, val |-> v, by |-> by]) @@ c

\* variant: a failed refresh evicts the stale entry
cache_on_raise_evict(c, key) == [k \in (DOMAIN c) \ {key} |-> c[k]]

\* what _cached_call leaves in self._cache when method(*args, **kwargs) raises
cache_on_raise(c, key) == c

\* variant: clear_cache drops only the entries that have expired
clear_cache_keep(c) == c

\* CoinGeckoClient.clear_cache
clear_cache(c) == << >>

----------------------------------------------------------------------------
(* Routes of apis/api_coingecko.py *)

\* the facade method each route calls
RouteOp(route) ==
    CASE route = "/ping"           -> "get_ping"
      [] route = "/categories"     -> "get_coins_categories"
      [] route = "/prices"         -> "get_price"
      [] route = "/trading/prices" -> "get_trading_prices"
      [] OTHER                     -> "none"

\* the message each route hands to handle_api_error
RouteMessage(route) ==
    CASE route = "/ping" ->
            <<"Error al verificar el ping del servidor de CoinGecko">>
      [] route = "/categories" ->
            <<"Error al obtener las categorias de criptomonedas">>
      [] route = "/prices" ->
            <<"Error al obtener el precio de la criptomoneda">>
      [] route = "/trading/prices" ->
            <<"Error al obtener precios para trading">>
      [] route = "/analysis" ->
            <<"Error obteniendo analisis de ", "coin_id">>
      [] OTHER -> <<"Error">>

\* what the SDK can return for a method; "bad" is a categories list with an
\* item that lacks "category_id"
SdkResults(op) ==
    IF op = "get_coins_categories" THEN {"r1", "bad"} ELSE {"r1", "r2"}

\* the messages of the exceptions the SDK raises
SdkMessages == {"API Error"}

\* the exception the rest of the try block raises on the facade's result v
\* (the list comprehension of get_coin_categories indexes cat["category_id"])
RouteBodyError(route, v) ==
    IF route = "/categories" /\ v = "bad"
    THEN PlainException("KeyError", <<"'category_id'">>)
    ELSE NoExc

NoResp == [status |-> 0, detail |-> <<>>, body |-> "none"]

\* the response of a route whose try block ended with exception e (NoExc: it
\* returned) after the facade returned v
RouteResponse(route, e, v) ==
    IF e = NoExc
    THEN [status |-> 200, detail |-> <<>>, body |-> v]
    ELSE LET h == handle_api_error(e, RouteMessage(route))
         IN  [status |-> h.status, detail |-> h.detail, body |-> "none"]

\* the requests the model serves: two /prices requests whose arguments differ
\* and whose cache keys are equal, one /trading/prices request, and the two
\* uncached routes
PriceX ==
    [route |-> "/prices", a1 |-> <<"a">>,
     a2 |-> <<"b", Colon, "include_24hr_change", Colon, "True", Colon,
              "vs_currencies", Colon, "c">>]
PriceY ==
    [route |-> "/prices",
     a1 |-> <<"a", Colon, "include_24hr_change", Colon, "True", Colon,
              "vs_currencies", Colon, "b">>,
     a2 |-> <<"c">>]
TradingZ == [route |-> "/trading/prices", a1 |-> <<"bitcoin">>, a2 |-> <<>>]
Ping == [route |-> "/ping", a1 |-> <<>>, a2 |-> <<>>]
Categories == [route |-> "/categories", a1 |-> <<>>, a2 |-> <<>>]
NoRq == [route |-> "none", a1 |-> <<>>, a2 |-> <<>>]

Requests == {PriceX, PriceY, TradingZ, Ping, Categories}

\* how far the clock moves in one step
TickSteps == {59, 60}

----------------------------------------------------------------------------
(* History kept for the properties *)

NoStore == [t |-> -1, val |-> "none"]

NoObs ==
    [n |-> 0,            \* SDK invocations made by the current facade call
     raised |-> 0,       \* attempts of the current facade call that raised
     t1 |-> -1,          \* time of the validity check of the first attempt
     prev |-> NoStore,   \* last store of the same call (method, arguments) at t1
     tchk |-> -1,        \* time of the latest validity check
     before |-> << >>,   \* _cache when the latest _cached_call started
     hit |-> FALSE,      \* the latest _cached_call found a valid entry
     sdkval |-> "none"]  \* value the SDK returned in the latest attempt

LastStoreOf(ls, id) == IF id \in DOMAIN ls THEN ls[id] ELSE NoStore

----------------------------------------------------------------------------
(* Actions of a request thread c *)

\* a request arrives and its route calls the facade method
Request(c, r) ==
    /\ pc[c] \in {"idle", "done"}
    /\ served < MaxRequests
    /\ served' = served + 1
    /\ pc' = [pc EXCEPT ![c] = "attempt"]
    /\ rq' = [rq EXCEPT ![c] = r]
    /\ att' = [att EXCEPT ![c] = 1]
    /\ exc' = [exc EXCEPT ![c] = NoExc]
    /\ ret' = [ret EXCEPT ![c] = "none"]
    /\ resp' = [resp EXCEPT ![c] = NoResp]
    /\ obs' = [obs EXCEPT ![c] = NoObs]
    /\ UNCHANGED <<now, cache, lastStore>>

\* one attempt starts: a cached method evaluates _is_cache_valid and returns the
\* stored value on a hit; otherwise the SDK method is invoked
Attempt(c) ==
    /\ pc[c] = "attempt"
    /\ LET op == RouteOp(rq[c].route)
           key == CacheKeyOf(op, rq[c])
           valid == op \in CachedOps /\ is_cache_valid(cache, key, now)
       IN  /\ obs' = [obs EXCEPT ![c] =
                        IF op \in CachedOps
                        THEN [@ EXCEPT
                                !.t1 = IF att[c] = 1 THEN now ELSE @,
                                !.prev = IF att[c] = 1
                                         THEN LastStoreOf(lastStore, CallId(op, rq[c]))
                                         ELSE @,
                                !.tchk = now,
                                !.before = cache,
                                !.hit = valid]
                        ELSE @]
           /\ IF valid
              THEN /\ ret' = [ret EXCEPT ![c] = cache[key].val]
                   /\ pc' = [pc EXCEPT ![c] = "respond"]
              ELSE /\ ret' = ret
                   /\ pc' = [pc EXCEPT ![c] = "sdk"]
    /\ UNCHANGED <<now, cache, lastStore, rq, att, exc, resp, served>>

\* the SDK method returns v: a cached method stores (time.time(), v)
SdkReturn(c, v) ==
    /\ pc[c] = "sdk"
    /\ LET op == RouteOp(rq[c].route)
           key == CacheKeyOf(op, rq[c])
           id == CallId(op, rq[c])
       IN  /\ v \in SdkResults(op)
           /\ IF op \in CachedOps
              THEN /\ cache' = cache_store(cache, key, now, v, id)
                   /\ lastStore' = (id :> [t |-> now, val |-> v]) @@ lastStore
              ELSE UNCHANGED <<cache, lastStore>>
    /\ ret' = [ret EXCEPT ![c] = v]
    /\ exc' = [exc EXCEPT ![c] = NoExc]
    /\ obs' = [obs EXCEPT ![c].n = @ + 1, ![c].sdkval = v]
    /\ pc' = [pc EXCEPT ![c] = "respond"]
    /\ UNCHANGED <<now, rq, att, resp, served>>

\* the SDK method raises: the facade raises CoinGeckoAPIError and tenacity
\* either sleeps and retries or gives up
SdkRaise(c, m) ==
    /\ pc[c] = "sdk"
    /\ LET op == RouteOp(rq[c].route)
           key == CacheKeyOf(op, rq[c])
           d == RetryDecision(op, att[c], FacadeError(op, PlainException("Exception", <<m>>)))
       IN  /\ cache' = IF op \in CachedOps THEN cache_on_raise(cache, key) ELSE cache
           /\ exc' = [exc EXCEPT ![c] = d.e]
           /\ pc' = [pc EXCEPT ![c] = IF d.act = "retry" THEN "wait" ELSE "respond"]
    /\ obs' = [obs EXCEPT ![c].n = @ + 1, ![c].raised = @ + 1, ![c].sdkval = "none"]
    /\ UNCHANGED <<now, lastStore, rq, att, ret, resp, served>>

\* tenacity sleeps wait_exponential(...) seconds and starts the next attempt
RetryWait(c) ==
    /\ pc[c] = "wait"
    /\ LET w == WaitSeconds(RouteOp(rq[c].route), att[c])
       IN  /\ now + w <= MaxTime
           /\ now' = now + w
    /\ att' = [att EXCEPT ![c] = @ + 1]
    /\ exc' = [exc EXCEPT ![c] = NoExc]
    /\ pc' = [pc EXCEPT ![c] = "attempt"]
    /\ UNCHANGED <<cache, lastStore, rq, ret, resp, obs, served>>

\* the route finishes: the rest of its try block, then the response
Respond(c) ==
    /\ pc[c] = "respond"
    /\ LET e == IF exc[c] # NoExc THEN exc[c]
                ELSE RouteBodyError(rq[c].route, ret[c])
       IN  /\ resp' = [resp EXCEPT ![c] = RouteResponse(rq[c].route, e, ret[c])]
           /\ exc' = [exc EXCEPT ![c] = e]
    /\ pc' = [pc EXCEPT ![c] = "done"]
    /\ obs' = [obs EXCEPT ![c] = NoObs]
    /\ UNCHANGED <<now, cache, lastStore, rq, att, ret, served>>

----------------------------------------------------------------------------
(* Handlers that do not go through CoinGeckoClient's retry wrapper *)

Abs(x) == IF x < 0 THEN -x ELSE x

\* a request to POST /api/paypal/buy-crypto; amounts in cents, coin_amount in
\* units of 0.00000001 coin, price in cents per such unit (0: get_current_price
\* returned None), find_ok / execute_ok the outcome of Payment.find and
\* payment.execute
BuyBase ==
    [amount |-> 200, coin_amount |-> 2, coin_id |-> "bitcoin", price |-> 100,
     find_ok |-> TRUE, state |-> "approved", total |-> 200, execute_ok |-> TRUE]

BuyInputs ==
    { BuyBase,
      [BuyBase EXCEPT !.amount = 0],
      [BuyBase EXCEPT !.coin_amount = 0],
      [BuyBase EXCEPT !.coin_id = ""],
      [BuyBase EXCEPT !.price = 0],
      [BuyBase EXCEPT !.price = 102],
      [BuyBase EXCEPT !.find_ok = FALSE],
      [BuyBase EXCEPT !.state = "created"],
      [BuyBase EXCEPT !.total = 100],
      [BuyBase EXCEPT !.execute_ok = FALSE] }

buy_crypto_try_noexec(i) ==
    IF i.amount <= 0 \/ i.coin_amount <= 0
    THEN HTTPException(400, <<"Monto invalido">>)
    ELSE IF i.coin_id = ""
    THEN HTTPException(400, <<"Coin ID es requerido">>)
    ELSE IF i.price = 0
    THEN HTTPException(404, <<"No se pudo obtener el precio de la criptomoneda">>)
    ELSE IF Abs(i.amount - i.coin_amount * i.price) > 1
    THEN HTTPException(400, <<"El monto no coincide con el calculo">>)
    ELSE IF ~i.find_ok
    THEN PlainException("ResourceNotFound", <<"Failed. Response status 404">>)
    ELSE IF i.state # "approved"
    THEN HTTPException(400, <<"El pago no fue aprobado por PayPal">>)
    ELSE IF i.total # i.amount
    THEN HTTPException(400, <<"El monto no coincide con la transaccion de PayPal">>)
    ELSE NoExc

\* the exception the try block of buy_crypto_with_paypal raises on input i
\* (NoExc: it returns the success body)
buy_crypto_try(i) ==
    IF i.amount <= 0 \/ i.coin_amount <= 0
    THEN HTTPException(400, <<"Monto invalido">>)
    ELSE IF i.coin_id = ""
    THEN HTTPException(400, <<"Coin ID es requerido">>)
    ELSE IF i.price = 0
    THEN HTTPException(404, <<"No se pudo obtener el precio de la criptomoneda">>)
    ELSE IF Abs(i.amount - i.coin_amount * i.price) > 1
    THEN HTTPException(400, <<"El monto no coincide con el calculo">>)
    ELSE IF ~i.find_ok
    THEN PlainException("ResourceNotFound", <<"Failed. Response status 404">>)
    ELSE IF i.state # "approved"
    THEN HTTPException(400, <<"El pago no fue aprobado por PayPal">>)
    ELSE IF i.total # i.amount
    THEN HTTPException(400, <<"El monto no coincide con la transaccion de PayPal">>)
    ELSE IF ~i.execute_ok
    THEN HTTPException(400, <<"Error al ejecutar el pago", Colon, " ", "Error desconocido">>)
    ELSE NoExc

\* a request to POST /api/notifications/ema-alert: complete = all four
\* required fields present, db_ok = asyncpg.connect succeeded, user = the users
\* row exists, settings = the notification_settings row ("missing", "off", or
\* its notification_type when enabled)
EmaBase ==
    [complete |-> TRUE, signal |-> "BUY", db_ok |-> TRUE, user |-> TRUE,
     settings |-> "both"]

EmaInputs ==
    { EmaBase,
      [EmaBase EXCEPT !.complete = FALSE],
      [EmaBase EXCEPT !.signal = "HOLD"],
      [EmaBase EXCEPT !.db_ok = FALSE],
      [EmaBase EXCEPT !.user = FALSE],
      [EmaBase EXCEPT !.settings = "missing"],
      [EmaBase EXCEPT !.settings = "off"],
      [EmaBase EXCEPT !.settings = "sell"],
      [EmaBase EXCEPT !.signal = "SELL", !.settings = "buy"],
      [EmaBase EXCEPT !.signal = "SELL", !.settings = "sell"] }

\* the exception the try block of send_ema_alert_notification raises
ema_alert_try(i) ==
    IF ~i.complete
    THEN HTTPException(400, <<"Faltan datos requeridos">>)
    ELSE IF i.signal \notin {"BUY", "SELL"}
    THEN HTTPException(400, <<"Tipo de senal invalido">>)
    ELSE IF ~i.db_ok
    THEN PlainException("OSError", <<"Connect call failed">>)
    ELSE IF ~i.user
    THEN HTTPException(404, <<"Usuario no encontrado">>)
    ELSE NoExc

\* the body send_ema_alert_notification returns when its try block raises nothing
ema_alert_body(i) ==
    IF i.settings \in {"missing", "off"} THEN "success=false"
    ELSE IF (i.settings = "buy" /\ i.signal # "BUY")
            \/ (i.settings = "sell" /\ i.signal # "SELL")
    THEN "success=false"
    ELSE "success=true"

\* the text a main.py handler puts before str(e)
MainPrefix(route) ==
    CASE route = "/api/paypal/buy-crypto"       -> <<"Error procesando compra", Colon, " ">>
      [] route = "/api/notifications/ema-alert" -> <<"Error enviando notificacion", Colon, " ">>
      [] OTHER                                  -> <<>>

\* except Exception as e: raise HTTPException(status_code=500,
\* detail=f"<prefix>{str(e)}") at the end of a main.py handler
main_catch_all(route, e) == HTTPException(500, MainPrefix(route) \o PyStrExc(e))

MainRoutes == {"/api/paypal/buy-crypto", "/api/notifications/ema-alert"}

\* the response of a main.py handler whose try block raised e / returned body
MainResponse(route, e, body) ==
    IF e = NoExc
    THEN [status |-> 200, detail |-> <<>>, body |-> body]
    ELSE LET h == main_catch_all(route, e)
         IN  [status |-> h.status, detail |-> h.detail, body |-> "none"]

\* a handler served in one step by thread c: route, try-block exception e and
\* the response
Serve(c, route, e, response) ==
    /\ pc[c] \in {"idle", "done"}
    /\ served < MaxRequests
    /\ served' = served + 1
    /\ rq' = [rq EXCEPT ![c] = [route |-> route, a1 |-> <<>>, a2 |-> <<>>]]
    /\ att' = [att EXCEPT ![c] = 0]
    /\ exc' = [exc EXCEPT ![c] = e]
    /\ ret' = [ret EXCEPT ![c] = "none"]
    /\ resp' = [resp EXCEPT ![c] = response]
    /\ obs' = [obs EXCEPT ![c] = NoObs]
    /\ pc' = [pc EXCEPT ![c] = "done"]
    /\ UNCHANGED <<now, cache, lastStore>>

\* POST /api/paypal/buy-crypto
BuyCryptoWithPaypal(c, i) ==
    LET route == "/api/paypal/buy-crypto"
    IN  Serve(c, route, buy_crypto_try(i), MainResponse(route, buy_crypto_try(i), "success=true"))

\* POST /api/notifications/ema-alert
SendEmaAlertNotification(c, i) ==
    LET route == "/api/notifications/ema-alert"
    IN  Serve(c, route, ema_alert_try(i), MainResponse(route, ema_alert_try(i), ema_alert_body(i)))

\* GET /analysis/{coin_id} of apis/dashboard.py: available = the analysis of
\* trading_service.get_coin_analysis is not None
GetCoinAnalysis(c, available) ==
    LET route == "/analysis"
        e == IF available THEN NoExc
             ELSE HTTPException(404, <<"Analisis no disponible">>)
    IN  Serve(c, route, e, RouteResponse(route, e, "analysis"))

\* a thread that is not inside a request calls clear_cache()
ClearCache(c) ==
    /\ pc[c] \in {"idle", "done"}
    /\ cache # << >>
    /\ cache' = clear_cache(cache)
    /\ lastStore' = << >>
    /\ UNCHANGED <<now, pc, rq, att, exc, ret, resp, obs, served>>

\* time passes: between requests and while a thread waits for the SDK's answer
Tick(d) ==
    /\ \A c \in Threads : pc[c] \in {"idle", "done", "sdk"}
    /\ now + d <= MaxTime
    /\ now' = now + d
    /\ UNCHANGED <<cache, lastStore, pc, rq, att, exc, ret, resp, obs, served>>

----------------------------------------------------------------------------
(* CoinbaseService.initialize : asyncio tasks on one event loop *)

NoTask == "none"
Tasks == {"a", "b", "c"}

\* variant: the test of _initialized under the lock is missing
already_initialized_never(flag) == FALSE

\* "if self._initialized: return True", the first statement under the lock
already_initialized(flag) == flag

\* variant: the lock can always be taken
lock_free_always(l) == TRUE

\* asyncio.Lock.acquire() returns only when the lock is not held
lock_free(l) == l = NoTask

\* task t calls _ensure_initialized() (ensure) or initialize() itself:
\* _ensure_initialized returns at once when _initialized is set
CallInitialize(t, ensure) ==
    /\ cbPc[t] \in {"idle", "done"}
    /\ IF ensure /\ cbInitialized
       THEN /\ cbPc' = [cbPc EXCEPT ![t] = "done"]
            /\ cbRet' = [cbRet EXCEPT ![t] = "None"]
       ELSE /\ cbPc' = [cbPc EXCEPT ![t] = "acquire"]
            /\ cbRet' = [cbRet EXCEPT ![t] = "none"]
    /\ UNCHANGED <<cbLock, cbInitialized, cbInitializing, cbObs>>
    /\ UNCHANGED <<clientVars, dbVars, memVars>>

\* task t acquires the lock and runs to its first await or to its return:
\* env = the three environment variables are set, ctor = CdpClient(...) was
\* constructed without raising
Acquire(t, env, ctor) ==
    /\ cbPc[t] = "acquire"
    /\ lock_free(cbLock)
    /\ IF already_initialized(cbInitialized)
       THEN \* return True; the lock is released on the way out
            /\ cbRet' = [cbRet EXCEPT ![t] = "True"]
            /\ cbPc' = [cbPc EXCEPT ![t] = "done"]
            /\ cbObs' = [cbObs EXCEPT !.entered[t] = cbInitialized]
            /\ UNCHANGED <<cbLock, cbInitialized, cbInitializing>>
       ELSE IF cbInitializing
       THEN \* for _ in range(30): await asyncio.sleep(0.1), the lock held
            /\ cbLock' = t
            /\ cbPc' = [cbPc EXCEPT ![t] = "sleep"]
            /\ cbObs' = [cbObs EXCEPT !.entered[t] = cbInitialized]
            /\ UNCHANGED <<cbRet, cbInitialized, cbInitializing>>
       ELSE IF ~env
       THEN \* _initializing = True; missing variables: return False;
            \* finally: _initializing = False; the lock is released
            /\ cbRet' = [cbRet EXCEPT ![t] = "False"]
            /\ cbPc' = [cbPc EXCEPT ![t] = "done"]
            /\ cbObs' = [cbObs EXCEPT !.entered[t] = cbInitialized]
            /\ UNCHANGED <<cbLock, cbInitialized, cbInitializing>>
       ELSE IF ~ctor
       THEN \* _get_client() raised: except: return False; finally as above
            /\ cbRet' = [cbRet EXCEPT ![t] = "False"]
            /\ cbPc' = [cbPc EXCEPT ![t] = "done"]
            /\ cbObs' = [cbObs EXCEPT !.entered[t] = cbInitialized,
                                      !.retest = @ \/ cbInitialized]
            /\ UNCHANGED <<cbLock, cbInitialized, cbInitializing>>
       ELSE \* async with self._get_client() as client: await __aenter__()
            /\ cbLock' = t
            /\ cbInitializing' = TRUE
            /\ cbPc' = [cbPc EXCEPT ![t] = "aenter"]
            /\ cbObs' = [cbObs EXCEPT !.entered[t] = cbInitialized,
                                      !.retest = @ \/ cbInitialized]
            /\ UNCHANGED <<cbRet, cbInitialized>>
    /\ UNCHANGED <<clientVars, dbVars, memVars>>

\* task t resumes from its await with outcome o: after __aenter__ the client
\* is truthy ("ok"), falsy ("falsy") or __aenter__ raised ("raise"); after
\* __aexit__ it returned ("ok") or raised ("raise"); after the sleep loop the
\* task returns _initialized
Resume(t, o) ==
    /\ cbPc[t] \in {"aenter", "aexit", "sleep"}
    /\ IF cbPc[t] = "aenter" /\ o = "ok"
       THEN \* self._initialized = True; return True runs __aexit__ first
            /\ cbInitialized' = TRUE
            /\ cbObs' = [cbObs EXCEPT !.inits = @ + 1]
            /\ cbRet' = [cbRet EXCEPT ![t] = "True"]
            /\ cbPc' = [cbPc EXCEPT ![t] = "aexit"]
            /\ UNCHANGED <<cbLock, cbInitializing>>
       ELSE IF cbPc[t] = "aenter" /\ o = "falsy"
       THEN \* return False runs __aexit__ first
            /\ cbRet' = [cbRet EXCEPT ![t] = "False"]
            /\ cbPc' = [cbPc EXCEPT ![t] = "aexit"]
            /\ UNCHANGED <<cbLock, cbInitialized, cbInitializing, cbObs>>
       ELSE IF cbPc[t] = "aenter"
       THEN \* except: return False; finally: _initializing = False; release
            /\ cbRet' = [cbRet EXCEPT ![t] = "False"]
            /\ cbPc' = [cbPc EXCEPT ![t] = "done"]
            /\ cbInitializing' = FALSE
            /\ cbLock' = NoTask
            /\ UNCHANGED <<cbInitialized, cbObs>>
       ELSE IF cbPc[t] = "aexit"
       THEN \* the pending return value stands unless __aexit__ raised;
            \* finally: _initializing = False; release
            /\ cbRet' = [cbRet EXCEPT ![t] = IF o = "raise" THEN "False" ELSE @]
            /\ cbPc' = [cbPc EXCEPT ![t] = "done"]
            /\ cbInitializing' = FALSE
            /\ cbLock' = NoTask
            /\ UNCHANGED <<cbInitialized, cbObs>>
       ELSE \* the sleep loop ends: return self._initialized; release
            /\ cbRet' = [cbRet EXCEPT ![t] = IF cbInitialized THEN "True" ELSE "False"]
            /\ cbPc' = [cbPc EXCEPT ![t] = "done"]
            /\ cbLock' = NoTask
            /\ UNCHANGED <<cbInitialized, cbInitializing, cbObs>>
    /\ UNCHANGED <<clientVars, dbVars, memVars>>

----------------------------------------------------------------------------
(* The PostgreSQL tables and the handlers of main.py that use them.        *)
(* Every conn.execute / conn.fetchrow is one autocommit statement: a       *)
(* handler can be overtaken by another handler between two of its          *)
(* statements. Times are in minutes, USD amounts in thousandths of a       *)
(* dollar, coin amounts in billionths of a coin.                           *)

\* handler invocations in one behaviour
MaxCalls == 3
\* number of times the clock of the database handlers advances
MaxTicks == 1

Procs == {"p1", "p2"}

\* timedelta(minutes=15) of register_user / login_user
CodeMinutes == 15
\* timedelta(hours=24) of create_session
SessionMinutes == 24 * 60
DbTickSteps == {CodeMinutes, SessionMinutes}

\* the process of the specifications that serve one request after another
Solo == "p1"

Emails == {"a@x", "b@x"}
\* the value generate_verification_code() returns, and the codes submitted
CodeValues == {"111111"}
SubmittedCodes == {"111111", "000000"}
\* values str(uuid.uuid4()) can return
Tokens == {"s1", "s2"}
UserIds == {1, 2}
CoinIds == {"bitcoin", "ethereum"}
PaymentIds == {"PAY-1", "PAY-2"}

NoLoc == [h |-> "none", call |-> 0, arg |-> << >>, user_id |-> 0, row |-> 0, cur |-> 0]
NoHResp ==
    [status |-> 0, error |-> "", detail |-> "", tokens |-> << >>, user |-> 0,
     cookie |-> "", ret |-> 0, success |-> "", priced |-> << >>]

\* raise HTTPException(status_code=status, detail=detail)
HttpResp(status, detail) == [NoHResp EXCEPT !.status = status, !.detail = detail]
\* an exception no handler catches: the server answers 500 Internal Server Error
Unhandled(cls) ==
    [NoHResp EXCEPT !.status = 500, !.error = cls, !.detail = "Internal Server Error"]
\* a helper function (not a route) raises cls(detail)
Raised(cls, detail) == [NoHResp EXCEPT !.error = cls, !.detail = detail]

NoSaved == [email |-> "", notification_type |-> "", enabled |-> ""]
\* history: ticks of the clock, tokens logged out and not issued again, the
\* values of each user's last successful save_notification_settings, the sum
\* of the amounts update_crypto_balance was asked to credit per (user, coin),
\* the sum of those amounts each rounded to 8 decimal places, and the number
\* of credits per PayPal payment id, the alert emails sent, and per user the
\* sum of the deposits minus the sum of the withdrawals that returned, the
\* number of requests that reached a rate limiter and the requests the
\* in-memory limiter accepted, and the number of times a handler behind the
\* rate_limit decorator was invoked
NoDbObs ==
    [ticks |-> 0, loggedOut |-> {}, saved |-> [u \in UserIds |-> NoSaved],
     mails |-> {}, net |-> [u \in UserIds |-> 0], hits |-> 0, accepted |-> << >>,
     invoked |-> 0,
     credited |-> [k \in UserIds \X CoinIds |-> 0],
     rounded |-> [k \in UserIds \X CoinIds |-> 0],
     paid |-> [pay \in PaymentIds |-> 0]]

\* process p, not inside a handler, enters handler h with arguments arg
Enter(p, h, arg, first) ==
    /\ hPc[p] \in {"idle", "done"}
    /\ hCalls < MaxCalls
    /\ hCalls' = hCalls + 1
    /\ hLoc' = [hLoc EXCEPT ![p] = [NoLoc EXCEPT !.h = h, !.call = hCalls + 1, !.arg = arg]]
    /\ hPc' = [hPc EXCEPT ![p] = first]

\* ... and is about to run its first statement
Call(p, h, arg, first) ==
    /\ Enter(p, h, arg, first)
    /\ hResp' = [hResp EXCEPT ![p] = NoHResp]

\* process p is about to run statement at of its handler
At(p, at) == hPc[p] = at

\* the handler of p ends with outcome r
Finish(p, r) ==
    /\ hPc' = [hPc EXCEPT ![p] = "done"]
    /\ hResp' = [hResp EXCEPT ![p] = r]

\* the handler of p goes on to statement at
Goto(p, at) ==
    /\ hPc' = [hPc EXCEPT ![p] = at]
    /\ UNCHANGED hResp

Min(S) == CHOOSE x \in S : \A y \in S : x <= y

\* hashlib.sha256(password.encode()).hexdigest()
hash_password(password) == <<"sha256", password>>
verify_password(plain, hashed) == hash_password(plain) = hashed

\* SELECT id FROM users WHERE correo = $1 (0: no row)
select_user(us, correo) ==
    LET S == {i \in 1..Len(us) : us[i].correo = correo}
    IN  IF S = {} THEN 0 ELSE Min(S)

\* the UNIQUE constraint of users.correo rejects the INSERT
correo_conflict(us, correo) == \E i \in 1..Len(us) : us[i].correo = correo

\* INSERT INTO verification_codes (user_id, code, expires_at)
insert_code(cs, user_id, code, t, call) ==
    Append(cs, [user_id |-> user_id, code |-> code, expires_at |-> t + CodeMinutes,
                used |-> FALSE, by |-> call])

\* the UNIQUE constraint of user_balances.user_id rejects the INSERT
balance_conflict(bs, user_id) == \E b \in bs : b.user_id = user_id

\* INSERT INTO user_balances (user_id, usd_balance) VALUES ($1, 0.00)
insert_balance(bs, user_id, call) ==
    bs \cup {[user_id |-> user_id, usd |-> 0, by |-> call]}

\* ... WHERE user_id = $1 AND code = $2 AND expires_at > $3 AND used = 0 :
\* the ids of the rows the SELECT of verify_code matches
valid_codes(cs, user_id, code, t) ==
    {i \in 1..Len(cs) : /\ cs[i].user_id = user_id
                        /\ cs[i].code = code
                        /\ cs[i].expires_at > t
                        /\ ~cs[i].used}

\* UPDATE verification_codes SET used = 1 WHERE id = $1
mark_used(cs, id) == [cs EXCEPT ![id].used = TRUE]

\* the UNIQUE constraint of sessions.session_token rejects the INSERT
token_conflict(ss, token) == \E s \in ss : s.session_token = token

\* create_session: INSERT INTO sessions (user_id, session_token, expires_at)
\* with expires_at = datetime.now() + timedelta(hours=24); created and via (the
\* verification code row) are history
insert_session(ss, user_id, token, t, via) ==
    ss \cup {[user_id |-> user_id, session_token |-> token,
              expires_at |-> t + SessionMinutes, created |-> t, via |-> via]}

session_live_ge(expires_at, t) == expires_at >= t

\* the comparison of verify_session's SELECT
session_live(expires_at, t) == expires_at > t

\* verify_session: SELECT user_id FROM sessions WHERE session_token = $1 AND
\* expires_at > $2; result['user_id'] if result else None (None is 0 here)
verify_session(ss, token, t) ==
    LET S == {s \in ss : s.session_token = token /\ session_live(s.expires_at, t)}
    IN  IF S = {} THEN 0 ELSE (CHOOSE s \in S : TRUE).user_id

delete_session_keep(ss, token) == ss

\* DELETE FROM sessions WHERE session_token = $1
delete_session(ss, token) == {s \in ss : s.session_token # token}

\* get_current_user on a request whose session_token cookie is cookie ("": none)
get_current_user(ss, cookie, t) ==
    IF cookie = ""
    THEN HttpResp(401, "No autenticado")
    ELSE IF verify_session(ss, cookie, t) = 0
    THEN HttpResp(401, "Sesion invalida o expirada")
    ELSE [NoHResp EXCEPT !.status = 200, !.user = verify_session(ss, cookie, t)]

authOther == <<balances, notif, transactions, crypto>>

\* POST /api/register
CallRegister(p, correo) ==
    /\ Call(p, "register_user", [correo |-> correo, password |-> "pw"], "reg_select")
    /\ UNCHANGED <<dbNow, usedType, users, codes, sessions, authOther, dbObs>>
    /\ UNCHANGED <<clientVars, cbVars, memVars>>

\* existing_user = SELECT id FROM users WHERE correo = $1; 400 when it exists
RegSelect(p) ==
    /\ At(p, "reg_select")
    /\ IF select_user(users, hLoc[p].arg.correo) # 0
       THEN Finish(p, HttpResp(400, "El correo ya esta registrado"))
       ELSE Goto(p, "reg_insert_user")
    /\ UNCHANGED <<dbNow, usedType, users, codes, sessions, authOther, hLoc, hCalls, dbObs>>
    /\ UNCHANGED <<clientVars, cbVars, memVars>>

\* INSERT INTO users ... RETURNING id
RegInsertUser(p) ==
    /\ At(p, "reg_insert_user")
    /\ IF correo_conflict(users, hLoc[p].arg.correo)
       THEN /\ Finish(p, Unhandled("UniqueViolationError"))
            /\ UNCHANGED <<users, hLoc>>
       ELSE /\ users' = Append(users, [correo |-> hLoc[p].arg.correo,
                                       password |-> hash_password(hLoc[p].arg.password),
                                       by |-> hLoc[p].call])
            /\ hLoc' = [hLoc EXCEPT ![p].user_id = Len(users) + 1]
            /\ Goto(p, "reg_insert_code")
    /\ UNCHANGED <<dbNow, usedType, codes, sessions, authOther, hCalls, dbObs>>
    /\ UNCHANGED <<clientVars, cbVars, memVars>>

\* INSERT INTO verification_codes of register_user
RegInsertCode(p, code) ==
    /\ At(p, "reg_insert_code")
    /\ codes' = insert_code(codes, hLoc[p].user_id, code, dbNow, hLoc[p].call)
    /\ Goto(p, "reg_insert_balance")
    /\ UNCHANGED <<dbNow, usedType, users, sessions, authOther, hLoc, hCalls, dbObs>>
    /\ UNCHANGED <<clientVars, cbVars, memVars>>

\* INSERT INTO user_balances of register_user, then the 200 response
RegInsertBalance(p) ==
    /\ At(p, "reg_insert_balance")
    /\ IF balance_conflict(balances, hLoc[p].user_id)
       THEN /\ Finish(p, Unhandled("UniqueViolationError"))
            /\ UNCHANGED balances
       ELSE /\ balances' = insert_balance(balances, hLoc[p].user_id, hLoc[p].call)
            /\ Finish(p, HttpResp(200, "Usuario registrado exitosamente"))
    /\ UNCHANGED <<dbNow, usedType, users, codes, sessions, notif, transactions, crypto,
                   hLoc, hCalls, dbObs>>
    /\ UNCHANGED <<clientVars, cbVars, memVars>>

\* POST /api/login
CallLogin(p, correo, password) ==
    /\ Call(p, "login_user", [correo |-> correo, password |-> password], "login_select")
    /\ UNCHANGED <<dbNow, usedType, users, codes, sessions, authOther, dbObs>>
    /\ UNCHANGED <<clientVars, cbVars, memVars>>

\* SELECT id, password FROM users WHERE correo = $1; 401 on bad credentials
LoginSelect(p) ==
    /\ At(p, "login_select")
    /\ LET u == select_user(users, hLoc[p].arg.correo)
       IN  IF u = 0 \/ ~verify_password(hLoc[p].arg.password, users[u].password)
           THEN /\ Finish(p, HttpResp(401, "Credenciales invalidas"))
                /\ UNCHANGED hLoc
           ELSE /\ hLoc' = [hLoc EXCEPT ![p].user_id = u]
                /\ Goto(p, "login_insert_code")
    /\ UNCHANGED <<dbNow, usedType, users, codes, sessions, authOther, hCalls, dbObs>>
    /\ UNCHANGED <<clientVars, cbVars, memVars>>

\* INSERT INTO verification_codes of login_user, then the 200 response
LoginInsertCode(p, code) ==
    /\ At(p, "login_insert_code")
    /\ codes' = insert_code(codes, hLoc[p].user_id, code, dbNow, hLoc[p].call)
    /\ Finish(p, HttpResp(200, "Codigo de verificacion enviado a tu email"))
    /\ UNCHANGED <<dbNow, usedType, users, sessions, authOther, hLoc, hCalls, dbObs>>
    /\ UNCHANGED <<clientVars, cbVars, memVars>>

\* POST /api/verify-code
CallVerifyCode(p, correo, code) ==
    /\ Call(p, "verify_code", [correo |-> correo, code |-> code], "vc_select_user")
    /\ UNCHANGED <<dbNow, usedType, users, codes, sessions, authOther, dbObs>>
    /\ UNCHANGED <<clientVars, cbVars, memVars>>

\* SELECT id FROM users WHERE correo = $1; 404 when there is none
VcSelectUser(p) ==
    /\ At(p, "vc_select_user")
    /\ LET u == select_user(users, hLoc[p].arg.correo)
       IN  IF u = 0
           THEN /\ Finish(p, HttpResp(404, "Usuario no encontrado"))
                /\ UNCHANGED hLoc
           ELSE /\ hLoc' = [hLoc EXCEPT ![p].user_id = u]
                /\ Goto(p, "vc_select_code")
    /\ UNCHANGED <<dbNow, usedType, users, codes, sessions, authOther, hCalls, dbObs>>
    /\ UNCHANGED <<clientVars, cbVars, memVars>>

\* valid_code = SELECT id FROM verification_codes WHERE ... AND used = 0.
\* PostgreSQL has no operator boolean = integer: on the BOOLEAN column init_db
\* creates the statement fails; on an INTEGER column it selects a row.
VcSelectCode(p) ==
    /\ At(p, "vc_select_code")
    /\ IF usedType = "boolean"
       THEN /\ Finish(p, Unhandled("UndefinedFunctionError"))
            /\ UNCHANGED hLoc
       ELSE LET S == valid_codes(codes, hLoc[p].user_id, hLoc[p].arg.code, dbNow)
            IN  IF S = {}
                THEN /\ Finish(p, HttpResp(401, "Codigo invalido or expirado"))
                     /\ UNCHANGED hLoc
                ELSE /\ \E id \in S : hLoc' = [hLoc EXCEPT ![p].row = id]
                     /\ Goto(p, "vc_update")
    /\ UNCHANGED <<dbNow, usedType, users, codes, sessions, authOther, hCalls, dbObs>>
    /\ UNCHANGED <<clientVars, cbVars, memVars>>

\* UPDATE verification_codes SET used = 1 WHERE id = $1
VcUpdate(p) ==
    /\ At(p, "vc_update")
    /\ codes' = mark_used(codes, hLoc[p].row)
    /\ Goto(p, "vc_session")
    /\ UNCHANGED <<dbNow, usedType, users, sessions, authOther, hLoc, hCalls, dbObs>>
    /\ UNCHANGED <<clientVars, cbVars, memVars>>

\* session_token = await create_session(user_id), then the 200 response that
\* sets the cookie
CreateSession(p, token) ==
    /\ At(p, "vc_session")
    /\ IF token_conflict(sessions, token)
       THEN /\ Finish(p, Unhandled("UniqueViolationError"))
            /\ UNCHANGED <<sessions, dbObs>>
       ELSE /\ sessions' = insert_session(sessions, hLoc[p].user_id, token, dbNow, hLoc[p].row)
            /\ dbObs' = [dbObs EXCEPT !.loggedOut = @ \ {token}]
            /\ Finish(p, [HttpResp(200, "Login exitoso") EXCEPT !.cookie = token])
    /\ UNCHANGED <<dbNow, usedType, users, codes, authOther, hLoc, hCalls>>
    /\ UNCHANGED <<clientVars, cbVars, memVars>>

\* a request to a route that depends on get_current_user
GetCurrentUser(p, cookie) ==
    /\ Enter(p, "get_current_user", [cookie |-> cookie], "done")
    /\ hResp' = [hResp EXCEPT ![p] = get_current_user(sessions, cookie, dbNow)]
    /\ UNCHANGED <<dbNow, usedType, users, codes, sessions, authOther, dbObs>>
    /\ UNCHANGED <<clientVars, cbVars, memVars>>

\* POST /api/logout
LogoutUser(p, cookie) ==
    /\ Enter(p, "logout_user", [cookie |-> cookie], "done")
    /\ hResp' = [hResp EXCEPT ![p] = HttpResp(200, "Logout exitoso")]
    /\ IF cookie # ""
       THEN /\ sessions' = delete_session(sessions, cookie)
            /\ dbObs' = [dbObs EXCEPT !.loggedOut = @ \cup {cookie}]
       ELSE UNCHANGED <<sessions, dbObs>>
    /\ UNCHANGED <<dbNow, usedType, users, codes, authOther>>
    /\ UNCHANGED <<clientVars, cbVars, memVars>>

\* the clock of the database handlers advances, between requests
TickDb(d) ==
    /\ dbObs.ticks < MaxTicks
    /\ \A p \in Procs : hPc[p] \in {"idle", "done"}
    /\ dbNow' = dbNow + d
    /\ dbObs' = [dbObs EXCEPT !.ticks = @ + 1]
    /\ UNCHANGED <<usedType, users, codes, sessions, authOther, hPc, hLoc, hResp, hCalls>>
    /\ UNCHANGED <<clientVars, cbVars, memVars>>

----------------------------------------------------------------------------
(* user_balances : get_user_balance / update_user_balance *)

\* a cent, in thousandths of a dollar: the scale of DECIMAL(15, 2)
CentMills == 10
\* 0.00000001 coin, in billionths of a coin: the scale of DECIMAL(20, 8)
SatoshiNanos == 10

\* a value stored in a DECIMAL(p, s) column is rounded to the column's scale,
\* half away from zero; float(x) is exact on the amounts used here
to_numeric(x, unit) ==
    IF x >= 0
    THEN ((x + unit \div 2) \div unit) * unit
    ELSE -(((unit \div 2 - x) \div unit) * unit)

UbAmounts == {4, 500, 1000}
UbKinds == {"deposit", "withdrawal", "refund"}

\* SELECT usd_balance FROM user_balances WHERE user_id = $1, as the balance
\* get_user_balance returns (0.00 when there is no row)
StoredUsd(bs, user_id) ==
    IF \E b \in bs : b.user_id = user_id
    THEN (CHOOSE b \in bs : b.user_id = user_id).usd
    ELSE 0

new_balance_nocheck(current_balance, amount, transaction_type) ==
    IF transaction_type = "deposit"
    THEN [ok |-> TRUE, val |-> current_balance + amount, detail |-> ""]
    ELSE IF transaction_type = "withdrawal"
    THEN [ok |-> TRUE, val |-> current_balance - amount, detail |-> ""]
    ELSE [ok |-> FALSE, val |-> 0, detail |-> "Tipo de transaccion no valido"]

\* the branch of update_user_balance: the new balance, or the ValueError
new_balance(current_balance, amount, transaction_type) ==
    IF transaction_type = "deposit"
    THEN [ok |-> TRUE, val |-> current_balance + amount, detail |-> ""]
    ELSE IF transaction_type = "withdrawal"
    THEN IF current_balance < amount
         THEN [ok |-> FALSE, val |-> 0, detail |-> "Saldo insuficiente para el retiro"]
         ELSE [ok |-> TRUE, val |-> current_balance - amount, detail |-> ""]
    ELSE [ok |-> FALSE, val |-> 0, detail |-> "Tipo de transaccion no valido"]

\* UPDATE user_balances SET usd_balance = $1 WHERE user_id = $2 with
\* $1 = float(new_balance)
update_usd(bs, user_id, new) ==
    {IF b.user_id = user_id THEN [b EXCEPT !.usd = to_numeric(new, CentMills)] ELSE b
       : b \in bs}

\* update_user_balance(user_id, amount, transaction_type)
CallUpdateUserBalance(p, user_id, amount, kind) ==
    /\ Call(p, "update_user_balance",
            [user_id |-> user_id, amount |-> amount, kind |-> kind], "ub_select")
    /\ UNCHANGED <<dbNow, usedType, users, codes, sessions, authOther, dbObs>>
    /\ UNCHANGED <<clientVars, cbVars, memVars>>

\* get_user_balance has returned cur: the branch on transaction_type
UbBranch(p, cur) ==
    LET a == hLoc[p].arg
        n == new_balance(cur, a.amount, a.kind)
    IN  /\ hLoc' = [hLoc EXCEPT ![p].cur = cur]
        /\ IF n.ok
           THEN Goto(p, "ub_update")
           ELSE Finish(p, Raised("ValueError", n.detail))

\* get_user_balance: the SELECT
UbSelect(p) ==
    /\ At(p, "ub_select")
    /\ IF balance_conflict(balances, hLoc[p].arg.user_id)
       THEN UbBranch(p, StoredUsd(balances, hLoc[p].arg.user_id))
       ELSE Goto(p, "ub_insert") /\ UNCHANGED hLoc
    /\ UNCHANGED <<dbNow, usedType, users, codes, sessions, authOther, hCalls, dbObs>>
    /\ UNCHANGED <<clientVars, cbVars, memVars>>

\* get_user_balance: the INSERT of the missing row
UbInsert(p) ==
    /\ At(p, "ub_insert")
    /\ IF balance_conflict(balances, hLoc[p].arg.user_id)
       THEN /\ Finish(p, Raised("UniqueViolationError", ""))
            /\ UNCHANGED <<balances, hLoc>>
       ELSE /\ balances' = insert_balance(balances, hLoc[p].arg.user_id, hLoc[p].call)
            /\ UbBranch(p, 0)
    /\ UNCHANGED <<dbNow, usedType, users, codes, sessions, notif, transactions, crypto,
                   hCalls, dbObs>>
    /\ UNCHANGED <<clientVars, cbVars, memVars>>

\* the UPDATE, then return new_balance
UbUpdate(p) ==
    /\ At(p, "ub_update")
    /\ LET a == hLoc[p].arg
           n == new_balance(hLoc[p].cur, a.amount, a.kind)
       IN  /\ balances' = update_usd(balances, a.user_id, n.val)
           /\ Finish(p, [NoHResp EXCEPT !.ret = n.val])
           /\ dbObs' = [dbObs EXCEPT !.net[a.user_id] = @ + n.val - hLoc[p].cur]
    /\ UNCHANGED <<dbNow, usedType, users, codes, sessions, notif, transactions, crypto,
                   hLoc, hCalls>>
    /\ UNCHANGED <<clientVars, cbVars, memVars>>

----------------------------------------------------------------------------
(* notification_settings : save_notification_settings *)

NotificationTypes == {"both", "buy", "sell"}

normalise_type_id(t) == t

\* if notification_type not in ['both', 'buy', 'sell']: notification_type = 'both'
normalise_type(t) == IF t \notin NotificationTypes THEN "both" ELSE t

SettingsEmails == {"", "a@x", "b@x"}
SettingsTypes == {"both", "buy", "sell", "weekly"}
\* JSON values of "enabled": true, false, and a value that is not a bool
SettingsEnabled == {"True", "False", "yes"}

\* INSERT INTO notification_settings ... ON CONFLICT (user_id) DO UPDATE SET ...
upsert_settings(ns, user_id, email, t, enabled) ==
    {n \in ns : n.user_id # user_id}
      \cup {[user_id |-> user_id, email |-> email, notification_type |-> t,
             enabled |-> enabled]}

\* the exception the try block of save_notification_settings raises
save_settings_try(email, enabled) ==
    IF email = ""
    THEN HTTPException(400, <<"Email es requerido">>)
    ELSE IF enabled \notin {"True", "False"}
    THEN PlainException("DataError", <<"invalid input for query argument $4">>)
    ELSE NoExc

\* POST /api/notifications/settings of the authenticated user user_id
SaveNotificationSettings(p, user_id, email, t, enabled) ==
    LET e == save_settings_try(email, enabled)
        prefix == <<"Error guardando configuracion", Colon, " ">>
    IN  /\ Enter(p, "save_notification_settings",
                 [user_id |-> user_id, email |-> email, t |-> t, enabled |-> enabled],
                 "done")
        /\ IF e = NoExc
           THEN /\ notif' = upsert_settings(notif, user_id, email, normalise_type(t), enabled)
                /\ dbObs' = [dbObs EXCEPT !.saved[user_id] =
                               [email |-> email, notification_type |-> normalise_type(t),
                                enabled |-> enabled]]
                /\ hResp' = [hResp EXCEPT ![p] = HttpResp(200, "Configuracion guardada exitosamente")]
           ELSE /\ UNCHANGED <<notif, dbObs>>
                /\ hResp' = [hResp EXCEPT ![p] =
                               [NoHResp EXCEPT !.status = 500, !.error = e.cls,
                                               !.tokens = prefix \o PyStrExc(e)]]
        /\ UNCHANGED <<dbNow, usedType, users, codes, sessions, balances, transactions, crypto>>
        /\ UNCHANGED <<clientVars, cbVars, memVars>>

----------------------------------------------------------------------------
(* crypto_balances : update_crypto_balance *)

CryptoAmounts == {4, SatoshiNanos, 26}

\* the balance of the crypto_balances rows of (user_id, coin_id), 0 without row
StoredCrypto(cb, user_id, coin_id) ==
    IF \E r \in cb : r.user_id = user_id /\ r.coin_id = coin_id
    THEN (CHOOSE r \in cb : r.user_id = user_id /\ r.coin_id = coin_id).balance
    ELSE 0

upsert_crypto_overwrite(cb, user_id, coin_id, amount) ==
    {r \in cb : ~(r.user_id = user_id /\ r.coin_id = coin_id)}
      \cup {[user_id |-> user_id, coin_id |-> coin_id,
             balance |-> to_numeric(amount, SatoshiNanos)]}

\* INSERT INTO crypto_balances (user_id, coin_id, balance) VALUES ($1, $2, $3)
\* ON CONFLICT (user_id, coin_id) DO UPDATE SET balance =
\* crypto_balances.balance + EXCLUDED.balance, with $3 = float(amount)
upsert_crypto(cb, user_id, coin_id, amount) ==
    {r \in cb : ~(r.user_id = user_id /\ r.coin_id = coin_id)}
      \cup {[user_id |-> user_id, coin_id |-> coin_id,
             balance |-> StoredCrypto(cb, user_id, coin_id)
                           + to_numeric(amount, SatoshiNanos)]}

\* update_crypto_balance(user_id, coin_id, amount) called on its own
CallUpdateCryptoBalance(p, user_id, coin_id, amount) ==
    /\ Call(p, "update_crypto_balance",
            [user_id |-> user_id, coin_id |-> coin_id, amount |-> amount, pay |-> ""],
            "cb_create")
    /\ UNCHANGED <<dbNow, usedType, users, codes, sessions, authOther, dbObs>>
    /\ UNCHANGED <<clientVars, cbVars, memVars>>

\* CREATE TABLE IF NOT EXISTS crypto_balances
CbCreateTable(p) ==
    /\ At(p, "cb_create")
    /\ Goto(p, "cb_upsert")
    /\ UNCHANGED <<dbNow, usedType, users, codes, sessions, authOther, hLoc, hCalls, dbObs>>
    /\ UNCHANGED <<clientVars, cbVars, memVars>>

\* the INSERT ... ON CONFLICT statement; update_crypto_balance returns, and
\* buy_crypto_with_paypal goes on to its confirmation email and response
CbUpsert(p) ==
    /\ At(p, "cb_upsert")
    /\ LET a == hLoc[p].arg
       IN  /\ crypto' = upsert_crypto(crypto, a.user_id, a.coin_id, a.amount)
           /\ dbObs' = [dbObs EXCEPT
                          !.credited[<<a.user_id, a.coin_id>>] = @ + a.amount,
                          !.rounded[<<a.user_id, a.coin_id>>] = @ + ((a.amount + 5) \div 10) * 10,
                          !.paid = IF a.pay \in PaymentIds
                                   THEN [@ EXCEPT ![a.pay] = @ + 1] ELSE @]
    /\ IF hLoc[p].h = "buy_crypto_with_paypal"
       THEN Goto(p, "buy_return")
       ELSE Finish(p, NoHResp)
    /\ UNCHANGED <<dbNow, usedType, users, codes, sessions, balances, notif, transactions,
                   hLoc, hCalls>>
    /\ UNCHANGED <<clientVars, cbVars, memVars>>

----------------------------------------------------------------------------
(* transactions : buy_crypto_with_paypal statement by statement *)

\* requests that fail more than one check of buy_crypto_with_paypal
BuyInputsDb ==
    BuyInputs \cup
    { [BuyBase EXCEPT !.amount = 0, !.coin_id = ""],
      [BuyBase EXCEPT !.coin_id = "", !.price = 0],
      [BuyBase EXCEPT !.price = 102, !.state = "created"],
      [BuyBase EXCEPT !.state = "created", !.total = 100],
      [BuyBase EXCEPT !.total = 100, !.execute_ok = FALSE] }

\* transaction_id = f"paypal_buy_{payment_id}"
transaction_id(payment_id) == <<"paypal_buy_", payment_id>>

transaction_conflict_never(ts, tid) == FALSE

\* the UNIQUE constraint of transactions.transaction_id rejects the INSERT
transaction_conflict(ts, tid) == \E t \in ts : t.transaction_id = tid

\* record_transaction: INSERT INTO transactions
record_transaction(ts, user_id, tid, amount, call) ==
    ts \cup {[user_id |-> user_id, transaction_id |-> tid, amount |-> amount,
              currency |-> "USD", status |-> "completed", type |-> "buy_crypto",
              by |-> call]}

\* the response of buy_crypto_with_paypal when its try block raises e
BuyFailure(e) ==
    LET h == main_catch_all("/api/paypal/buy-crypto", e)
    IN  [NoHResp EXCEPT !.status = h.status, !.error = e.cls, !.tokens = h.detail]

\* POST /api/paypal/buy-crypto of the authenticated user user_id
CallBuy(p, user_id, payment_id, i) ==
    /\ Call(p, "buy_crypto_with_paypal",
            [user_id |-> user_id, coin_id |-> i.coin_id,
             amount |-> i.coin_amount * SatoshiNanos, pay |-> payment_id, i |-> i],
            "buy_checks")
    /\ UNCHANGED <<dbNow, usedType, users, codes, sessions, authOther, dbObs>>
    /\ UNCHANGED <<clientVars, cbVars, memVars>>

\* the validations, the price, Payment.find and payment.execute: everything
\* the handler does before its first statement on the database
BuyChecks(p) ==
    /\ At(p, "buy_checks")
    /\ IF buy_crypto_try(hLoc[p].arg.i) # NoExc
       THEN Finish(p, BuyFailure(buy_crypto_try(hLoc[p].arg.i)))
       ELSE Goto(p, "buy_record")
    /\ UNCHANGED <<dbNow, usedType, users, codes, sessions, authOther, hLoc, hCalls, dbObs>>
    /\ UNCHANGED <<clientVars, cbVars, memVars>>

\* await record_transaction(...)
BuyRecord(p) ==
    /\ At(p, "buy_record")
    /\ LET a == hLoc[p].arg
           tid == transaction_id(a.pay)
       IN  IF transaction_conflict(transactions, tid)
           THEN /\ Finish(p, BuyFailure(PlainException("UniqueViolationError",
                                 <<"duplicate key value violates unique constraint">>)))
                /\ UNCHANGED transactions
           ELSE /\ transactions' = record_transaction(transactions, a.user_id, tid,
                                                      a.i.amount, hLoc[p].call)
                /\ Goto(p, "cb_create")
    /\ UNCHANGED <<dbNow, usedType, users, codes, sessions, balances, notif, crypto,
                   hLoc, hCalls, dbObs>>
    /\ UNCHANGED <<clientVars, cbVars, memVars>>

\* the confirmation email and the success response
BuyReturn(p) ==
    /\ At(p, "buy_return")
    /\ Finish(p, HttpResp(200, "Compra realizada exitosamente"))
    /\ UNCHANGED <<dbNow, usedType, users, codes, sessions, authOther, hLoc, hCalls, dbObs>>
    /\ UNCHANGED <<clientVars, cbVars, memVars>>

----------------------------------------------------------------------------
(* notification_settings : send_ema_alert_notification *)

Signals == {"BUY", "SELL", "HOLD"}

ema_admits_all(notification_type, signal_type) == TRUE

\* the second test of send_ema_alert_notification, negated: the stored type
\* lets the signal through
ema_admits(notification_type, signal_type) ==
    ~ \/ (notification_type = "buy" /\ signal_type # "BUY")
      \/ (notification_type = "sell" /\ signal_type # "SELL")

\* return {"success": ..., "message": ...}
EmaBody(success, message) ==
    [NoHResp EXCEPT !.status = 200, !.success = success, !.detail = message]

\* except Exception as e: raise HTTPException(500, "Error enviando ...: str(e)")
EmaFailure(e) ==
    [NoHResp EXCEPT !.status = 500, !.error = e.cls,
                    !.tokens = MainPrefix("/api/notifications/ema-alert") \o PyStrExc(e)]

\* POST /api/notifications/ema-alert of the authenticated user user_id;
\* complete = coin_id, signal_type, current_price and ema_value are all truthy
CallEmaAlert(p, user_id, complete, signal_type) ==
    /\ Call(p, "send_ema_alert_notification",
            [user_id |-> user_id, complete |-> complete, signal_type |-> signal_type,
             settings |-> NoSaved],
            "ema_user")
    /\ UNCHANGED <<dbNow, usedType, users, codes, sessions, balances, notif,
                   transactions, crypto, dbObs>>
    /\ UNCHANGED <<clientVars, cbVars, memVars>>

\* the validations and SELECT nombre, apellido, correo FROM users WHERE id = $1
EmaSelectUser(p) ==
    /\ At(p, "ema_user")
    /\ LET a == hLoc[p].arg
       IN  IF ~a.complete
           THEN Finish(p, EmaFailure(HTTPException(400, <<"Faltan datos requeridos">>)))
           ELSE IF a.signal_type \notin {"BUY", "SELL"}
           THEN Finish(p, EmaFailure(HTTPException(400, <<"Tipo de senal invalido">>)))
           ELSE IF a.user_id \notin 1..Len(users)
           THEN Finish(p, EmaFailure(HTTPException(404, <<"Usuario no encontrado">>)))
           ELSE Goto(p, "ema_settings")
    /\ UNCHANGED <<dbNow, usedType, users, codes, sessions, balances, notif,
                   transactions, crypto, hLoc, hCalls, dbObs>>
    /\ UNCHANGED <<clientVars, cbVars, memVars>>

\* SELECT email, notification_type, enabled FROM notification_settings WHERE
\* user_id = $1 and the two tests on the row
EmaSelectSettings(p) ==
    /\ At(p, "ema_settings")
    /\ LET a == hLoc[p].arg
           S == {n \in notif : n.user_id = a.user_id}
           row == CHOOSE n \in S : TRUE
       IN  IF S = {} \/ row.enabled # "True"
           THEN /\ Finish(p, EmaBody("False", "Notificaciones desactivadas"))
                /\ UNCHANGED hLoc
           ELSE IF ~ema_admits(row.notification_type, a.signal_type)
           THEN /\ Finish(p, EmaBody("False", "Tipo de notificacion no permitido"))
                /\ UNCHANGED hLoc
           ELSE /\ Goto(p, "ema_send")
                /\ hLoc' = [hLoc EXCEPT ![p].arg.settings =
                              [email |-> row.email,
                               notification_type |-> row.notification_type,
                               enabled |-> row.enabled]]
    /\ UNCHANGED <<dbNow, usedType, users, codes, sessions, balances, notif,
                   transactions, crypto, hCalls, dbObs>>
    /\ UNCHANGED <<clientVars, cbVars, memVars>>

\* after conn.close(): send_ema_notification_email(email=user['correo'], ...)
\* and the success body; the mail records the settings row the handler read
EmaSend(p) ==
    /\ At(p, "ema_send")
    /\ LET a == hLoc[p].arg
       IN  dbObs' = [dbObs EXCEPT !.mails = @ \cup
                       {[call |-> hLoc[p].call, user_id |-> a.user_id,
                         to |-> users[a.user_id].correo,
                         signal_type |-> a.signal_type, settings |-> a.settings]}]
    /\ Finish(p, EmaBody("True", "Notificacion enviada exitosamente"))
    /\ UNCHANGED <<dbNow, usedType, users, codes, sessions, balances, notif,
                   transactions, crypto, hLoc, hCalls>>
    /\ UNCHANGED <<clientVars, cbVars, memVars>>

----------------------------------------------------------------------------
(* dependencies.rate_limit : the in-memory limiter, one log per client IP. *)
(* The coroutine has no await: a call is one step. Times are in seconds.   *)

\* number of requests that reach a rate limiter in one behaviour
MaxHits == 4
\* the clock of the rate limiters does not advance beyond MaxClock
MaxClock == 4
\* the values of max_requests and time_window the limiters are called with
RlMaxRequests == 2
RlTimeWindow == 2

ClientIps == {"10.0.0.1", "10.0.0.2"}

\* _request_logs[client_ip] of the defaultdict(list)
LogOf(logs, ip) == IF ip \in DOMAIN logs THEN logs[ip] ELSE << >>

rl_fresh_le(t, timestamp, time_window) == t - timestamp <= time_window

\* now - timestamp < timedelta(seconds=time_window)
rl_fresh(t, timestamp, time_window) == t - timestamp < time_window

\* [timestamp for timestamp in _request_logs[client_ip] if now - timestamp < ...]
rl_clean(log, t, time_window) ==
    SelectSeq(log, LAMBDA timestamp : rl_fresh(t, timestamp, time_window))

\* rate_limit(request) for a request of client ip
RateLimit(p, ip) ==
    /\ hPc[p] \in {"idle", "done"}
    /\ dbObs.hits < MaxHits
    /\ LET log == rl_clean(LogOf(request_logs, ip), now, RlTimeWindow)
       IN  IF Len(log) >= RlMaxRequests
           THEN /\ request_logs' = (ip :> log) @@ request_logs
                /\ hResp' = [hResp EXCEPT ![p] = HttpResp(429, "Demasiadas requests")]
                /\ dbObs' = [dbObs EXCEPT !.hits = @ + 1]
           ELSE /\ request_logs' = (ip :> Append(log, now)) @@ request_logs
                /\ hResp' = [hResp EXCEPT ![p] = HttpResp(200, "")]
                /\ dbObs' = [dbObs EXCEPT !.hits = @ + 1,
                                          !.accepted = Append(@, [ip |-> ip, t |-> now])]
    /\ hLoc' = [hLoc EXCEPT ![p] = [NoLoc EXCEPT !.h = "rate_limit", !.arg = [ip |-> ip]]]
    /\ hPc' = [hPc EXCEPT ![p] = "done"]
    /\ UNCHANGED <<dbNow, usedType, users, codes, sessions, balances, notif,
                   transactions, crypto, hCalls>>
    /\ UNCHANGED <<now, cache, lastStore, pc, rq, att, exc, ret, resp, obs, served>>
    /\ UNCHANGED <<cbVars, redis, price_cache>>

\* the keys of the Redis server that are alive at time t: a key whose expiry
\* has been reached is gone (NoExpiry: the key has no expiry)
NoExpiry == -1
redis_expire(data, t) ==
    LET alive == {k \in DOMAIN data : data[k].exp = NoExpiry \/ t < data[k].exp}
    IN  [k \in alive |-> data[k]]

\* a second passes, between two steps of the limiters; Redis drops the keys
\* whose expiry is reached
TickMem ==
    /\ now < MaxClock
    /\ now' = now + 1
    /\ redis' = [redis EXCEPT !.data = redis_expire(@, now + 1)]
    /\ UNCHANGED <<cache, lastStore, pc, rq, att, exc, ret, resp, obs, served>>
    /\ UNCHANGED <<cbVars, dbVars, request_logs, price_cache>>

----------------------------------------------------------------------------
(* utils/rate_limiting.py and core/cache.py : the Redis-backed limiters.   *)
(* Every await on Redis is one step; requests interleave between them.     *)

RlIdentifiers == {"u1", "u2"}
\* f"rate_limit:{identifier}" and f"global_rate_limit:{resource}"
RlPrefixes == {"rate_limit", "global_rate_limit"}
RlKey(prefix, identifier) == <<prefix, Colon, identifier>>

\* the attributes of the RedisCache instance app.core.cache.redis_client
RedisCacheAttrs ==
    {"redis_client", "init_redis", "get", "set", "setex", "delete", "exists", "close"}

\* RedisCache.get : None (0 here) without a client or for a missing key
redis_get(r, key) ==
    IF ~r.client \/ key \notin DOMAIN r.data THEN 0 ELSE r.data[key].val

\* RedisCache.setex -> RedisCache.set(key, value, expire) -> SETEX
redis_setex(r, key, seconds, value, t) ==
    IF ~r.client THEN r
    ELSE [r EXCEPT !.data = (key :> [val |-> value, exp |-> t + seconds]) @@ @]

\* redis_client.redis_client.incr(key) : INCR keeps the expiry of an existing
\* key and creates a missing key with value 1 and no expiry
redis_incr(r, key) ==
    IF key \in DOMAIN r.data
    THEN [r EXCEPT !.data[key].val = @ + 1]
    ELSE [r EXCEPT !.data = (key :> [val |-> 1, exp |-> NoExpiry]) @@ @]

\* a request reaches a limiter: function h with arguments arg
LimEnter(p, h, arg, first) ==
    /\ hPc[p] \in {"idle", "done"}
    /\ dbObs.hits < MaxHits
    /\ hLoc' = [hLoc EXCEPT ![p] = [NoLoc EXCEPT !.h = h, !.call = dbObs.hits + 1, !.arg = arg]]
    /\ hPc' = [hPc EXCEPT ![p] = first]

\* is_rate_limited / check_global_rate_limit returns limited; in the wrapper
\* of the rate_limit decorator this raises 429 with Retry-After = time_window
\* or invokes the decorated handler
LimiterReturn(p, limited, hits) ==
    IF hLoc[p].h = "wrapper"
    THEN IF limited
         THEN /\ Finish(p, [HttpResp(429, "Rate limit exceeded") EXCEPT !.ret = RlTimeWindow])
              /\ dbObs' = [dbObs EXCEPT !.hits = hits]
         ELSE /\ Finish(p, HttpResp(200, "handler"))
              /\ dbObs' = [dbObs EXCEPT !.hits = hits, !.invoked = @ + 1]
    ELSE /\ Finish(p, [NoHResp EXCEPT !.detail = IF limited THEN "limited" ELSE "admitted"])
         /\ dbObs' = [dbObs EXCEPT !.hits = hits]

limFrame ==
    <<dbNow, usedType, users, codes, sessions, balances, notif, transactions,
      crypto, hCalls, clientVars, cbVars, request_logs, price_cache>>

\* RateLimiter.is_rate_limited(identifier, ...) or
\* GlobalRateLimiter.check_global_rate_limit(resource, ...) is called
CallLimiter(p, prefix, identifier) ==
    /\ LimEnter(p, IF prefix = "rate_limit" THEN "is_rate_limited"
                   ELSE "check_global_rate_limit",
                [key |-> RlKey(prefix, identifier)], "rl_get")
    /\ hResp' = [hResp EXCEPT ![p] = NoHResp]
    /\ dbObs' = [dbObs EXCEPT !.hits = @ + 1]
    /\ UNCHANGED <<redis, limFrame>>

\* a request reaches a handler decorated with rate_limit: the wrapper calls
\* redis_client.is_rate_limited(f"{func.__name__}:{identifier}", ...) on the
\* RedisCache instance
CallWrapper(p, identifier) ==
    /\ LimEnter(p, "wrapper", [key |-> RlKey("rate_limit", identifier)],
                IF "is_rate_limited" \in RedisCacheAttrs THEN "rl_get" ELSE "done")
    /\ hResp' = [hResp EXCEPT ![p] =
                   IF "is_rate_limited" \in RedisCacheAttrs THEN NoHResp
                   ELSE Unhandled("AttributeError")]
    /\ dbObs' = [dbObs EXCEPT !.hits = @ + 1]
    /\ UNCHANGED <<redis, limFrame>>

\* the connection test of is_rate_limited, then current_count = await
\* redis_client.get(key) and the two tests on it
RlGet(p) ==
    /\ At(p, "rl_get")
    /\ LET count == redis_get(redis, hLoc[p].arg.key)
       IN  IF hLoc[p].h # "check_global_rate_limit" /\ ~redis.client
           THEN LimiterReturn(p, FALSE, dbObs.hits) /\ UNCHANGED hLoc
           ELSE IF count = 0
           THEN Goto(p, "rl_setex") /\ UNCHANGED <<hLoc, dbObs>>
           ELSE IF count >= RlMaxRequests
           THEN LimiterReturn(p, TRUE, dbObs.hits) /\ UNCHANGED hLoc
           ELSE /\ Goto(p, "rl_incr")
                /\ hLoc' = [hLoc EXCEPT ![p].cur = count]
                /\ UNCHANGED dbObs
    /\ UNCHANGED <<redis, limFrame>>

\* await redis_client.setex(key, time_window, 1); return False
RlSetex(p) ==
    /\ At(p, "rl_setex")
    /\ redis' = redis_setex(redis, hLoc[p].arg.key, RlTimeWindow, 1, now)
    /\ LimiterReturn(p, FALSE, dbObs.hits)
    /\ UNCHANGED <<hLoc, limFrame>>

\* await redis_client.redis_client.incr(key); return False
RlIncr(p) ==
    /\ At(p, "rl_incr")
    /\ redis' = redis_incr(redis, hLoc[p].arg.key)
    /\ LimiterReturn(p, FALSE, dbObs.hits)
    /\ UNCHANGED <<hLoc, limFrame>>

----------------------------------------------------------------------------
(* services/proton_service.py : ProtonWalletService._add_real_token_prices *)
(* Prices are in units of 0.0001 USD, amounts in whole tokens.             *)

\* self.token_contracts, in the order of the dict
token_contracts ==
    << [contract |-> "eosio.token", tokens |-> <<"XPR">>, coingecko_ids |-> <<"proton">>],
       [contract |-> "tokens.proton",
        tokens |-> <<"XUSDT", "XBTC", "XETH", "XUSDC", "XDOGE", "XBNB", "XADA", "XDOT", "XLTC">>,
        coingecko_ids |-> <<"tether", "bitcoin", "ethereum", "usd-coin", "dogecoin",
                            "binancecoin", "cardano", "polkadot", "litecoin">>],
       [contract |-> "usdt.proton", tokens |-> <<"USDT">>, coingecko_ids |-> <<"tether">>],
       [contract |-> "btc.proton", tokens |-> <<"BTC">>, coingecko_ids |-> <<"bitcoin">>],
       [contract |-> "eth.proton", tokens |-> <<"ETH">>, coingecko_ids |-> <<"ethereum">>],
       [contract |-> "usdc.proton", tokens |-> <<"USDC">>, coingecko_ids |-> <<"usd-coin">>],
       [contract |-> "dogep.proton", tokens |-> <<"DOGE">>, coingecko_ids |-> <<"dogecoin">>],
       [contract |-> "xprtokens.proton", tokens |-> <<"XMD", "LOAN", "SWAP">>,
        coingecko_ids |-> <<"proton", "proton-loan", "proton-swap">>],
       [contract |-> "proton.swaps", tokens |-> <<"PSWAP">>, coingecko_ids |-> <<"proton-swap">>] >>

\* the dict fallback_prices of _get_fallback_price
fallback_prices ==
    [XPR |-> 12, USDT |-> 10000, XUSDT |-> 10000, USDC |-> 10000, XUSDC |-> 10000,
     BTC |-> 430000000, XBTC |-> 430000000, ETH |-> 23000000, XETH |-> 23000000,
     DOGE |-> 800, XDOGE |-> 800, BNB |-> 3500000, XBNB |-> 3500000,
     ADA |-> 5000, XADA |-> 5000, DOT |-> 65000, XDOT |-> 65000,
     LTC |-> 700000, XLTC |-> 700000,
     XMD |-> 150, LOAN |-> 250, SWAP |-> 350, PSWAP |-> 350]

\* fallback_prices.get(symbol, 0.0)
get_fallback_price(symbol) ==
    IF symbol \in DOMAIN fallback_prices THEN fallback_prices[symbol] ELSE 0

\* the token symbols and amounts of the wallets of the model, the CoinGecko
\* ids they map to and the prices CoinGecko answers for those ids
TokenSymbols == {"XPR", "XBTC", "USDT", "FOO"}
TokenInputs ==
    {<<[symbol |-> sy, amount_float |-> 2]>> : sy \in TokenSymbols}
      \cup {<<[symbol |-> "XPR", amount_float |-> 1], [symbol |-> "XBTC", amount_float |-> 2]>>}
LivePrices == [proton |-> 10, bitcoin |-> 500000000, tether |-> 9990]
\* get_price raises, or answers without the ids in omitted
CgOutcomes ==
    {[raises |-> TRUE, omitted |-> {}]}
      \cup {[raises |-> FALSE, omitted |-> o] : o \in {{}, {"proton"}}}

\* timedelta(minutes=2) of price_cache_timeout, in seconds
PriceCacheSeconds == 2 * 60

IndexOf(seq, x) == Min({i \in 1..Len(seq) : seq[i] = x})
InSeq(seq, x) == \E i \in 1..Len(seq) : seq[i] = x

\* symbol_to_coingecko.get(symbol) after the first loop of
\* _add_real_token_prices ("" : None)
symbol_to_coingecko(symbol) ==
    LET C == {i \in 1..Len(token_contracts) : InSeq(token_contracts[i].tokens, symbol)}
        c == token_contracts[Min(C)]
        idx == IndexOf(c.tokens, symbol)
    IN  IF C = {} THEN ""
        ELSE IF idx <= Len(c.coingecko_ids) THEN c.coingecko_ids[idx] ELSE ""

\* the set coingecko_ids collected from tokens
coingecko_ids_of(tokens) ==
    {symbol_to_coingecko(tokens[i].symbol) : i \in 1..Len(tokens)} \ {""}

\* {coin_id: self._get_fallback_price(coin_id) for coin_id in coin_ids}
failed_prices(coin_ids) == [id \in coin_ids |-> get_fallback_price(id)]

\* the dict result of _get_coingecko_prices when get_price answered
answered_prices(coin_ids, omitted) ==
    [id \in coin_ids |->
       IF id \notin omitted THEN LivePrices[id] ELSE get_fallback_price(id)]

\* the cached data for the ids, if price_cache holds them and they are young
price_cache_hit(pcache, coin_ids, t) ==
    coin_ids \in DOMAIN pcache /\ t - pcache[coin_ids].timestamp < PriceCacheSeconds

\* what _get_coingecko_prices(coin_ids) returns
get_coingecko_prices(pcache, coin_ids, o, t) ==
    IF price_cache_hit(pcache, coin_ids, t) THEN pcache[coin_ids].data
    ELSE IF o.raises THEN failed_prices(coin_ids)
    ELSE answered_prices(coin_ids, o.omitted)

\* the token with price_usd, value_usd and coingecko_id set by the second
\* loop of _add_real_token_prices
priced_token(token, prices) ==
    LET id == symbol_to_coingecko(token.symbol)
        price == IF id # "" /\ id \in DOMAIN prices THEN prices[id]
                 ELSE get_fallback_price(token.symbol)
    IN  [symbol |-> token.symbol, amount_float |-> token.amount_float,
         price_usd |-> price, value_usd |-> token.amount_float * price,
         coingecko_id |-> IF id # "" /\ id \in DOMAIN prices THEN id ELSE ""]

\* _add_real_token_prices(tokens) while CoinGecko behaves as o; the coroutine
\* awaits nothing that yields, so the call is one step
AddRealTokenPrices(p, tokens, o) ==
    /\ LimEnter(p, "_add_real_token_prices", [tokens |-> tokens, o |-> o], "done")
    /\ LET ids == coingecko_ids_of(tokens)
           hit == price_cache_hit(price_cache, ids, now)
           prices == get_coingecko_prices(price_cache, ids, o, now)
       IN  /\ price_cache' =
                IF hit \/ o.raises THEN price_cache
                ELSE (ids :> [data |-> prices, timestamp |-> now]) @@ price_cache
           /\ hResp' = [hResp EXCEPT ![p] =
                          [NoHResp EXCEPT !.status = 200,
                             !.error = IF hit THEN "cached" ELSE "",
                             !.priced = [i \in 1..Len(tokens) |-> priced_token(tokens[i], prices)]]]
    /\ dbObs' = [dbObs EXCEPT !.hits = @ + 1]
    /\ UNCHANGED <<dbNow, usedType, users, codes, sessions, balances, notif,
                   transactions, crypto, hCalls, clientVars, cbVars, request_logs, redis>>

----------------------------------------------------------------------------
(* Specifications *)

InitClient ==
    /\ now = 0
    /\ cache = << >>
    /\ lastStore = << >>
    /\ pc = [c \in Threads |-> "idle"]
    /\ rq = [c \in Threads |-> NoRq]
    /\ att = [c \in Threads |-> 0]
    /\ exc = [c \in Threads |-> NoExc]
    /\ ret = [c \in Threads |-> "none"]
    /\ resp = [c \in Threads |-> NoResp]
    /\ obs = [c \in Threads |-> NoObs]
    /\ served = 0

InitCoinbase ==
    /\ cbLock = NoTask
    /\ cbInitialized = FALSE
    /\ cbInitializing = FALSE
    /\ cbPc = [t \in Tasks |-> "idle"]
    /\ cbRet = [t \in Tasks |-> "none"]
    /\ cbObs = [inits |-> 0, retest |-> FALSE, entered |-> [t \in Tasks |-> FALSE]]

\* no request was rate-limited yet, Redis is connected and empty, and no
\* price was looked up yet
InitMem ==
    /\ request_logs = << >>
    /\ redis = [client |-> TRUE, data |-> << >>]
    /\ price_cache = << >>

\* the users two earlier registrations left, and the verification codes
\* register_user stored for them at time 0
Registered ==
    << [correo |-> "a@x", password |-> hash_password("pw"), by |-> 0],
       [correo |-> "b@x", password |-> hash_password("pw"), by |-> 0] >>

RegisteredCodes == insert_code(insert_code(<< >>, 1, "111111", 0, 0), 2, "111111", 0, 0)

\* the tables hold users us, codes cs and user_balances rows bs; the column
\* verification_codes.used has type ut; no handler is running
InitTables(us, cs, bs, ut) ==
    /\ dbNow = 0
    /\ usedType = ut
    /\ users = us
    /\ codes = cs
    /\ sessions = {}
    /\ balances = bs
    /\ notif = {}
    /\ transactions = {}
    /\ crypto = {}
    /\ hPc = [p \in Procs |-> "idle"]
    /\ hLoc = [p \in Procs |-> NoLoc]
    /\ hResp = [p \in Procs |-> NoHResp]
    /\ hCalls = 0
    /\ dbObs = NoDbObs

\* the database init_db() creates
InitDb == InitTables(<< >>, << >>, {}, "boolean")

Init == InitClient /\ InitCoinbase /\ InitMem /\ InitDb

\* the thread of the sequential specification
Main == "t1"

\* requests served one after another by one thread
Next ==
    \/ \E r \in Requests : Request(Main, r) /\ UNCHANGED <<cbVars, dbVars, memVars>>
    \/ Attempt(Main) /\ UNCHANGED <<cbVars, dbVars, memVars>>
    \/ \E v \in {"r1", "r2", "bad"} : SdkReturn(Main, v) /\ UNCHANGED <<cbVars, dbVars, memVars>>
    \/ \E m \in SdkMessages : SdkRaise(Main, m) /\ UNCHANGED <<cbVars, dbVars, memVars>>
    \/ RetryWait(Main) /\ UNCHANGED <<cbVars, dbVars, memVars>>
    \/ Respond(Main) /\ UNCHANGED <<cbVars, dbVars, memVars>>
    \/ \E i \in BuyInputs : BuyCryptoWithPaypal(Main, i) /\ UNCHANGED <<cbVars, dbVars, memVars>>
    \/ \E i \in EmaInputs : SendEmaAlertNotification(Main, i) /\ UNCHANGED <<cbVars, dbVars, memVars>>
    \/ \E a \in BOOLEAN : GetCoinAnalysis(Main, a) /\ UNCHANGED <<cbVars, dbVars, memVars>>
    \/ ClearCache(Main) /\ UNCHANGED <<cbVars, dbVars, memVars>>
    \/ \E d \in TickSteps : Tick(d) /\ UNCHANGED <<cbVars, dbVars, memVars>>

Spec == Init /\ [][Next]_vars

\* concurrent calls of CoinbaseService.initialize
NextCoinbase ==
    \/ \E t \in Tasks, ensure \in BOOLEAN : CallInitialize(t, ensure)
    \/ \E t \in Tasks, env \in BOOLEAN, ctor \in BOOLEAN : Acquire(t, env, ctor)
    \/ \E t \in Tasks, o \in {"ok", "falsy", "raise"} : Resume(t, o)

SpecCoinbase == Init /\ [][NextCoinbase]_vars

\* the routes of apis/api_coingecko.py are plain def functions: the server
\* runs them on worker threads, here two threads on the shared client asking
\* for prices
NextThreads ==
    \/ \E c \in Threads, r \in {PriceX, PriceY} : Request(c, r) /\ UNCHANGED <<cbVars, dbVars, memVars>>
    \/ \E c \in Threads : Attempt(c) /\ UNCHANGED <<cbVars, dbVars, memVars>>
    \/ \E c \in Threads, v \in {"r1", "r2"} : SdkReturn(c, v) /\ UNCHANGED <<cbVars, dbVars, memVars>>
    \/ \E c \in Threads, m \in SdkMessages : SdkRaise(c, m) /\ UNCHANGED <<cbVars, dbVars, memVars>>
    \/ \E c \in Threads : RetryWait(c) /\ UNCHANGED <<cbVars, dbVars, memVars>>
    \/ \E c \in Threads : Respond(c) /\ UNCHANGED <<cbVars, dbVars, memVars>>
    \/ \E d \in TickSteps : Tick(d) /\ UNCHANGED <<cbVars, dbVars, memVars>>

SpecThreads == Init /\ [][NextThreads]_vars

\* register_user and login_user requests, interleaved
NextRegister ==
    \/ \E p \in Procs, e \in Emails : CallRegister(p, e)
    \/ \E p \in Procs : RegSelect(p)
    \/ \E p \in Procs : RegInsertUser(p)
    \/ \E p \in Procs, c \in CodeValues : RegInsertCode(p, c)
    \/ \E p \in Procs : RegInsertBalance(p)
    \/ \E p \in Procs, e \in Emails, pw \in {"pw", "bad"} : CallLogin(p, e, pw)
    \/ \E p \in Procs : LoginSelect(p)
    \/ \E p \in Procs, c \in CodeValues : LoginInsertCode(p, c)

SpecRegister == Init /\ [][NextRegister]_vars

\* code verification, authenticated requests and logout of the registered
\* users, interleaved; the table verification_codes is the one
\* init_db() creates (used BOOLEAN) or an older one that CREATE TABLE IF NOT
\* EXISTS leaves in place (used INTEGER)
InitSession ==
    /\ InitClient
    /\ InitCoinbase
    /\ InitMem
    /\ \E ut \in {"boolean", "integer"} :
          InitTables(Registered, RegisteredCodes,
                     {[user_id |-> u, usd |-> 0, by |-> 0] : u \in UserIds}, ut)

NextSession ==
    \/ \E p \in Procs, e \in Emails \cup {"c@x"}, c \in SubmittedCodes :
          /\ e \in Emails \/ c \in CodeValues
          /\ CallVerifyCode(p, e, c)
    \/ \E p \in Procs : VcSelectUser(p)
    \/ \E p \in Procs : VcSelectCode(p)
    \/ \E p \in Procs : VcUpdate(p)
    \/ \E p \in Procs, t \in Tokens : CreateSession(p, t)
    \/ \E c \in Tokens \cup {""} : GetCurrentUser(Solo, c)
    \/ \E c \in Tokens \cup {""} : LogoutUser(Solo, c)
    \/ \E d \in DbTickSteps : TickDb(d)

SpecSession == InitSession /\ [][NextSession]_vars

\* update_user_balance calls, one after another; user 2 has no user_balances
\* row yet
InitBalance ==
    /\ InitClient
    /\ InitCoinbase
    /\ InitMem
    /\ InitTables(Registered, RegisteredCodes, {[user_id |-> 1, usd |-> 0, by |-> 0]},
                  "boolean")

NextBalance ==
    \/ \E u \in UserIds, a \in UbAmounts, k \in UbKinds :
          CallUpdateUserBalance(Solo, u, a, k)
    \/ UbSelect(Solo)
    \/ UbInsert(Solo)
    \/ UbUpdate(Solo)

SpecBalance == InitBalance /\ [][NextBalance]_vars

InitRegistered ==
    /\ InitClient
    /\ InitCoinbase
    /\ InitMem
    /\ InitTables(Registered, RegisteredCodes,
                  {[user_id |-> u, usd |-> 0, by |-> 0] : u \in UserIds}, "boolean")

\* save_notification_settings requests, one after another
NextSettings ==
    \E u \in UserIds, e \in SettingsEmails, t \in SettingsTypes, en \in SettingsEnabled :
       SaveNotificationSettings(Solo, u, e, t, en)

SpecSettings == InitRegistered /\ [][NextSettings]_vars

\* concurrent update_user_balance calls on user 1, with amounts in whole cents
NextBalanceRace ==
    \/ \E p \in Procs, a \in {500, 1000}, k \in {"deposit", "withdrawal"} :
          CallUpdateUserBalance(p, 1, a, k)
    \/ \E p \in Procs : UbSelect(p)
    \/ \E p \in Procs : UbUpdate(p)

SpecBalanceRace == InitRegistered /\ [][NextBalanceRace]_vars

\* update_crypto_balance calls, interleaved
NextCrypto ==
    \/ \E p \in Procs, u \in UserIds, c \in CoinIds, a \in CryptoAmounts :
          CallUpdateCryptoBalance(p, u, c, a)
    \/ \E p \in Procs : CbCreateTable(p)
    \/ \E p \in Procs : CbUpsert(p)

SpecCrypto == InitRegistered /\ [][NextCrypto]_vars

\* buy_crypto_with_paypal requests, interleaved: requests that pass every
\* check for each user and payment id, failing requests for one of them
NextBuy ==
    \/ \E p \in Procs, u \in UserIds, pay \in PaymentIds, i \in BuyInputsDb :
          /\ i = BuyBase \/ (u = 1 /\ pay = "PAY-1")
          /\ CallBuy(p, u, pay, i)
    \/ \E p \in Procs : BuyChecks(p)
    \/ \E p \in Procs : BuyRecord(p)
    \/ \E p \in Procs : CbCreateTable(p)
    \/ \E p \in Procs : CbUpsert(p)
    \/ \E p \in Procs : BuyReturn(p)

SpecBuy == InitRegistered /\ [][NextBuy]_vars

\* alert requests interleaved with save_notification_settings requests
NextAlert ==
    \/ \E p \in Procs, u \in UserIds, t \in SettingsTypes, en \in {"True", "False"} :
          SaveNotificationSettings(p, u, "a@x", t, en)
    \/ \E p \in Procs, u \in UserIds, c \in BOOLEAN, sg \in Signals :
          CallEmaAlert(p, u, c, sg)
    \/ \E p \in Procs : EmaSelectUser(p)
    \/ \E p \in Procs : EmaSelectSettings(p)
    \/ \E p \in Procs : EmaSend(p)

SpecAlert == InitRegistered /\ [][NextAlert]_vars

\* requests from two client IPs to a route that depends on rate_limit
NextRateLimit ==
    \/ \E ip \in ClientIps : RateLimit(Solo, ip)
    \/ TickMem

SpecRateLimit == Init /\ [][NextRateLimit]_vars

\* Redis is connected or init_redis() failed; no key is stored
InitRedis ==
    /\ InitClient
    /\ InitCoinbase
    /\ InitDb
    /\ request_logs = << >>
    /\ price_cache = << >>
    /\ \E c \in BOOLEAN : redis = [client |-> c, data |-> << >>]

\* concurrent requests to the Redis-backed limiters and to a handler
\* decorated with rate_limit
NextRedis ==
    \/ \E p \in Procs, pre \in RlPrefixes, id \in RlIdentifiers : CallLimiter(p, pre, id)
    \/ \E p \in Procs, id \in RlIdentifiers : CallWrapper(p, id)
    \/ \E p \in Procs : RlGet(p)
    \/ \E p \in Procs : RlSetex(p)
    \/ \E p \in Procs : RlIncr(p)
    \/ TickMem

SpecRedis == InitRedis /\ [][NextRedis]_vars

\* wallets priced one after another while CoinGecko answers, omits ids or fails
NextProton ==
    \/ \E tokens \in TokenInputs, o \in CgOutcomes : AddRealTokenPrices(Solo, tokens, o)
    \/ TickMem

SpecProton == Init /\ [][NextProton]_vars

----------------------------------------------------------------------------
(* Properties of the TTL cache and the retry wrapper *)

CachedCallAt(c, p) == pc[c] = p /\ RouteOp(rq[c].route) \in CachedOps

KeyOfThread(c) == CacheKeyOf(RouteOp(rq[c].route), rq[c])

\* C1: a cached call made less than 60 s after a call with the same SDK method
\* and the same arguments stored its result, with no clear_cache in between,
\* returns that stored result and does not invoke the SDK method.
C1_CacheHit ==
    \A c \in Threads :
        ( /\ CachedCallAt(c, "respond")
          /\ obs[c].prev # NoStore
          /\ obs[c].t1 - obs[c].prev.t < CacheDuration )
        => ( /\ exc[c] = NoExc
             /\ ret[c] = obs[c].prev.val
             /\ obs[c].n = 0 )

\* a call answered from an entry that is 59 s old
C1_Witness ==
    \E c \in Threads :
        /\ CachedCallAt(c, "respond")
        /\ obs[c].prev # NoStore
        /\ obs[c].t1 - obs[c].prev.t = CacheDuration - 1
        /\ obs[c].n = 0
        /\ ret[c] = obs[c].prev.val

\* C2: an entry is valid exactly while its age is below 60 s: a _cached_call
\* that finds the entry of its key younger than 60 s returns the stored value
\* without invoking the SDK; one that finds it 60 s old or older invokes the
\* SDK method and, when that returns, returns the new result and leaves the
\* entry equal to (now, new result).
C2_Expiry ==
    \A c \in Threads :
        ( CachedCallAt(c, "respond") /\ KeyOfThread(c) \in DOMAIN obs[c].before )
        => LET k == KeyOfThread(c)
               age == obs[c].tchk - obs[c].before[k].ts
           IN  /\ (age < CacheDuration) <=> obs[c].hit
               /\ obs[c].hit =>
                    /\ obs[c].n = 0
                    /\ ret[c] = obs[c].before[k].val
                    /\ cache = obs[c].before
               /\ ~obs[c].hit => obs[c].n >= 1
               /\ (~obs[c].hit /\ exc[c] = NoExc) =>
                    /\ obs[c].sdkval # "none"
                    /\ ret[c] = obs[c].sdkval
                    /\ k \in DOMAIN cache
                    /\ cache[k].ts = now
                    /\ cache[k].val = ret[c]

\* an entry exactly 60 s old was refreshed by a new SDK invocation
C2_Witness ==
    \E c \in Threads :
        /\ CachedCallAt(c, "respond")
        /\ KeyOfThread(c) \in DOMAIN obs[c].before
        /\ obs[c].tchk - obs[c].before[KeyOfThread(c)].ts = CacheDuration
        /\ ~obs[c].hit
        /\ exc[c] = NoExc
        /\ ret[c] # obs[c].before[KeyOfThread(c)].val
        /\ cache[KeyOfThread(c)].val = ret[c]

IsPrefixOf(p, s) == Len(p) <= Len(s) /\ SubSeq(s, 1, Len(p)) = p

\* C3: when every attempt of a retry-wrapped method raises, the SDK method was
\* invoked exactly stop_after_attempt times and the exception that reaches
\* the caller is CoinGeckoAPIError with the method's prefix.
C3_RetryExhaustion ==
    \A c \in Threads :
        ( pc[c] = "respond" /\ exc[c] # NoExc )
        => LET op == RouteOp(rq[c].route)
           IN  /\ obs[c].n = stop_after_attempt(op)
               /\ exc[c].cls = "CoinGeckoAPIError"
               /\ IsPrefixOf(Prefix(op), exc[c].detail)

\* C4: a cache lookup never returns a result that was stored for different
\* arguments (different calls of one SDK method never share a key).
C4_KeySensitivity ==
    \A c \in Threads :
        ( CachedCallAt(c, "respond") /\ obs[c].hit )
        => obs[c].before[KeyOfThread(c)].by = CallId(RouteOp(rq[c].route), rq[c])

\* C5: a route whose facade call failed on all retry attempts answers 503.
C5_Exhausted503 ==
    \A c \in Threads :
        ( pc[c] = "done" /\ exc[c].cls = "RetryError" ) => resp[c].status = 503

Contains(s, tok) == \E i \in 1..Len(s) : s[i] = tok

\* C6: when the upstream categories call raises, GET /categories answers 500
\* and the detail contains the message of the upstream exception.
C6_Categories500 ==
    \A c \in Threads :
        ( pc[c] = "done" /\ rq[c].route = "/categories" /\ exc[c].cls = "RetryError" )
        => ( /\ resp[c].status = 500
             /\ \E m \in SdkMessages : Contains(resp[c].detail, m) )

IsSuffixOf(x, s) ==
    Len(x) <= Len(s) /\ SubSeq(s, Len(s) - Len(x) + 1, Len(s)) = x

C8_Step ==
    \/ \E c \in Threads : ClearCache(c) /\ cache' = << >>
    \/ /\ DOMAIN cache \subseteq DOMAIN cache'
       /\ \A k \in DOMAIN cache :
            \/ cache'[k] = cache[k]
            \/ \E c \in Threads :
                 /\ pc[c] = "sdk" /\ pc'[c] = "respond"
                 /\ KeyOfThread(c) = k
                 /\ ~is_cache_valid(cache, k, obs[c].tchk)

C8_HitAfterStore ==
    \A c \in Threads :
        ( CachedCallAt(c, "respond") /\ obs[c].hit )
        => \E id \in DOMAIN lastStore :
              get_cache_key(id.m, << >>, id.kw) = KeyOfThread(c)

C8_OnlyClearRemoves == [][C8_Step]_vars /\ []C8_HitAfterStore

\* an expired entry is still in the mapping after a later call stored a
\* younger entry under another key
C8_Witness ==
    /\ Cardinality(DOMAIN cache) = 2
    /\ \E k \in DOMAIN cache : now - cache[k].ts >= CacheDuration
    /\ \E k \in DOMAIN cache : now - cache[k].ts < CacheDuration

\* C9: a _cached_call whose SDK invocation raises leaves _cache exactly as it
\* was when the call started, and a facade call that returns returns either
\* the value the SDK just returned or the value of an entry younger than 60 s.
C9_NoFallback ==
    \A c \in Threads :
        /\ ( /\ RouteOp(rq[c].route) \in CachedOps
             /\ pc[c] \in {"wait", "respond"}
             /\ exc[c] # NoExc )
           => cache = obs[c].before
        /\ ( CachedCallAt(c, "respond") /\ exc[c] = NoExc )
           => \/ obs[c].sdkval # "none" /\ ret[c] = obs[c].sdkval
              \/ /\ obs[c].hit
                 /\ KeyOfThread(c) \in DOMAIN obs[c].before
                 /\ obs[c].tchk - obs[c].before[KeyOfThread(c)].ts < CacheDuration
                 /\ ret[c] = obs[c].before[KeyOfThread(c)].val

\* the SDK raised on every attempt while an expired entry of the key existed
C9_Witness ==
    \E c \in Threads :
        /\ CachedCallAt(c, "respond")
        /\ exc[c] # NoExc
        /\ KeyOfThread(c) \in DOMAIN obs[c].before
        /\ cache = obs[c].before
        /\ now - cache[KeyOfThread(c)].ts >= CacheDuration

----------------------------------------------------------------------------
(* Properties of CoinbaseService.initialize *)

HoldsLock(t) == cbPc[t] \in {"aenter", "aexit", "sleep"}

\* C10: at most one call is between acquiring and releasing _lock; a call
\* that acquires the lock after _initialized was set returns True and no
\* client is created or tested once _initialized is set, so the successful
\* initialization step runs at most once; _initializing is False whenever no
\* call holds the lock; _initialized never returns to False.
C10_State ==
    /\ Cardinality({t \in Tasks : HoldsLock(t)}) <= 1
    /\ \A t \in Tasks : HoldsLock(t) <=> cbLock = t
    /\ cbObs.inits <= 1
    /\ ~cbObs.retest
    /\ \A t \in Tasks :
          (cbPc[t] = "done" /\ cbRet[t] # "None" /\ cbObs.entered[t]) => cbRet[t] = "True"
    /\ (cbLock = NoTask) => ~cbInitializing

C10_SingleInit == []C10_State /\ [][cbInitialized => cbInitialized']_vars

\* a second call waited for the lock while the first one initialized, then
\* acquired it and returned True
C10_Witness ==
    \E t, u \in Tasks :
        /\ t # u
        /\ cbObs.inits = 1
        /\ cbPc[t] = "done" /\ cbRet[t] = "True" /\ ~cbObs.entered[t]
        /\ cbPc[u] = "done" /\ cbRet[u] = "True" /\ cbObs.entered[u]

----------------------------------------------------------------------------
(* Properties of registration, sessions and verification codes *)

\* process p has finished a request of handler h
HandlerDone(p, h) == hPc[p] = "done" /\ hLoc[p].h = h

\* the step is the call of the one-statement handler h by process p
AtomicCall(p, h) ==
    /\ hCalls' = hCalls + 1
    /\ hLoc'[p].call = hCalls'
    /\ hLoc'[p].h = h

\* C11: no two user rows share an email; a register_user request that does
\* not register (its email already belongs to a user) is answered with HTTP 400
\* and has created no user, verification-code or balance row; a request
\* answered with 200 has created exactly one user row, one verification code
\* and one user_balances row with balance 0.00.
C11_Register ==
    /\ \A i, j \in 1..Len(users) : users[i].correo = users[j].correo => i = j
    /\ \A p \in Procs :
          HandlerDone(p, "register_user") =>
             LET n == hLoc[p].call
                 us == {i \in 1..Len(users) : users[i].by = n}
                 cs == {i \in 1..Len(codes) : codes[i].by = n}
                 bs == {b \in balances : b.by = n}
             IN  IF hResp[p].status = 200
                 THEN /\ Cardinality(us) = 1
                      /\ Cardinality(cs) = 1
                      /\ Cardinality(bs) = 1
                      /\ \A b \in bs : b.usd = 0 /\ b.user_id \in us
                      /\ \A i \in cs : codes[i].user_id \in us
                 ELSE /\ hResp[p].status = 400
                      /\ us = {} /\ cs = {} /\ bs = {}

\* a session row of token c owned by u that has not expired at time t
LiveSession(c, u, t) ==
    \E s \in sessions : s.session_token = c /\ s.user_id = u /\ s.expires_at > t

C12_Step ==
    \A p \in Procs :
        AtomicCall(p, "get_current_user") =>
            LET c == hLoc'[p].arg.cookie
                r == hResp'[p]
            IN  /\ r.status \in {200, 401}
                /\ \A u \in UserIds :
                      (r.status = 200 /\ r.user = u) <=> (c # "" /\ LiveSession(c, u, dbNow))
                /\ r.status = 401 <=> ~(c # "" /\ \E u \in UserIds : LiveSession(c, u, dbNow))

C12_Rows ==
    /\ \A s \in sessions : s.expires_at = s.created + 24 * 60
    /\ \A s1, s2 \in sessions : s1.session_token = s2.session_token => s1 = s2

C18_Step ==
    \A p \in Procs :
        /\ AtomicCall(p, "logout_user") /\ hLoc'[p].arg.cookie # "" =>
              LET c == hLoc'[p].arg.cookie
              IN  /\ \A s \in sessions' : s.session_token # c
                  /\ {s \in sessions' : s.session_token # c}
                       = {s \in sessions : s.session_token # c}
        /\ AtomicCall(p, "get_current_user") /\ hLoc'[p].arg.cookie \in dbObs.loggedOut =>
              hResp'[p].status = 401

----------------------------------------------------------------------------
(* Properties of the balance, settings and purchase handlers *)

\* the step of update_user_balance in which get_user_balance returns and the
\* branch on transaction_type is taken: an insufficient withdrawal and an
\* unknown transaction_type raise ValueError and leave every balance as it was
C14_Branch ==
    \A p \in Procs :
        ( /\ hLoc[p].h = "update_user_balance"
          /\ hPc[p] \in {"ub_select", "ub_insert"}
          /\ hPc'[p] \in {"done", "ub_update"} ) =>
            LET a == hLoc[p].arg
                cur == StoredUsd(balances', a.user_id)
                bad == \/ a.kind \notin {"deposit", "withdrawal"}
                       \/ (a.kind = "withdrawal" /\ a.amount > cur)
            IN  /\ hLoc'[p].cur = cur
                /\ \A u \in UserIds : StoredUsd(balances', u) = StoredUsd(balances, u)
                /\ IF bad
                   THEN hPc'[p] = "done" /\ hResp'[p].error = "ValueError"
                   ELSE hPc'[p] = "ub_update"

\* the step in which update_user_balance writes and returns
UbReturns(p) ==
    /\ hLoc[p].h = "update_user_balance"
    /\ hPc[p] = "ub_update"
    /\ hPc'[p] = "done"

\* the value update_user_balance returns from balance cur
UbExpected(a, cur) == IF a.kind = "deposit" THEN cur + a.amount ELSE cur - a.amount

C14_UpdateExact ==
    \A p \in Procs :
        UbReturns(p) =>
            /\ hResp'[p].error = ""
            /\ hResp'[p].ret = UbExpected(hLoc[p].arg, hLoc[p].cur)
            /\ hResp'[p].ret = StoredUsd(balances', hLoc[p].arg.user_id)

C14_UpdateRounded ==
    \A p \in Procs :
        UbReturns(p) =>
            LET stored == StoredUsd(balances', hLoc[p].arg.user_id)
                r == hResp'[p].ret
            IN  /\ hResp'[p].error = ""
                /\ r = UbExpected(hLoc[p].arg, hLoc[p].cur)
                /\ stored % 10 = 0
                /\ 2 * Abs(stored - r) <= 10
                /\ r % 10 = 0 => stored = r
                /\ \A u \in UserIds \ {hLoc[p].arg.user_id} :
                      StoredUsd(balances', u) = StoredUsd(balances, u)

C14_Rows ==
    /\ \A b1, b2 \in balances : b1.user_id = b2.user_id => b1 = b2
    /\ \A p \in Procs :
          HandlerDone(p, "update_user_balance") =>
             \E b \in balances : b.user_id = hLoc[p].arg.user_id

\* C14 as stated: ... and on success update_user_balance returns the new
\* balance, which equals the stored balance.
C14_ReturnsStored == [][C14_Branch /\ C14_UpdateExact]_vars /\ []C14_Rows

\* C14: update_user_balance raises ValueError and leaves the stored balance
\* unchanged on a withdrawal larger than the balance and on an unknown
\* transaction_type; on success it returns balance + amount or balance - amount
\* and stores that value rounded to two decimal places, which is the returned
\* value when the amount has at most two decimal places; there is one
\* user_balances row per user.
C14_UpdateBalance == [][C14_Branch /\ C14_UpdateRounded]_vars /\ []C14_Rows

\* a deposit of a sub-cent amount on a positive balance has returned a value
\* that differs from the stored one
C14_Witness ==
    \E p \in Procs :
        /\ HandlerDone(p, "update_user_balance")
        /\ hResp[p].error = ""
        /\ hResp[p].ret % 10 # 0
        /\ StoredUsd(balances, hLoc[p].arg.user_id) > 0
        /\ StoredUsd(balances, hLoc[p].arg.user_id) # hResp[p].ret

CryptoRows(k) == {r \in crypto : r.user_id = k[1] /\ r.coin_id = k[2]}

\* C15 as stated: at most one crypto_balances row per (user_id, coin_id), and
\* its balance equals the sum of all amounts credited for the pair.
C15_SumExact ==
    \A k \in UserIds \X CoinIds :
        /\ Cardinality(CryptoRows(k)) <= 1
        /\ StoredCrypto(crypto, k[1], k[2]) = dbObs.credited[k]

\* C15: at most one crypto_balances row per (user_id, coin_id); its balance
\* equals the sum of the credited amounts, each rounded to 8 decimal places;
\* the row exists exactly when the pair has been credited.
C15_SumRounded ==
    \A k \in UserIds \X CoinIds :
        /\ Cardinality(CryptoRows(k)) <= 1
        /\ StoredCrypto(crypto, k[1], k[2]) = dbObs.rounded[k]
        /\ dbObs.credited[k] > 0 <=> CryptoRows(k) # {}

\* a pair credited more than once whose balance differs from the exact sum
C15_Witness ==
    \E k \in UserIds \X CoinIds :
        /\ StoredCrypto(crypto, k[1], k[2]) >= 40
        /\ StoredCrypto(crypto, k[1], k[2]) # dbObs.credited[k]

C17_Step ==
    \A p \in Procs :
        AtomicCall(p, "save_notification_settings") =>
            LET a == hLoc'[p].arg
                nt == IF a.t \in {"both", "buy", "sell"} THEN a.t ELSE "both"
            IN  /\ a.email = "" => notif' = notif
                /\ IF hResp'[p].status = 200
                   THEN /\ {n \in notif' : n.user_id = a.user_id}
                             = {[user_id |-> a.user_id, email |-> a.email,
                                 notification_type |-> nt, enabled |-> a.enabled]}
                        /\ {n \in notif' : n.user_id # a.user_id}
                             = {n \in notif : n.user_id # a.user_id}
                   ELSE notif' = notif

C17_Rows ==
    /\ \A n1, n2 \in notif : n1.user_id = n2.user_id => n1 = n2
    /\ \A n \in notif : n.notification_type \in {"both", "buy", "sell"} /\ n.email # ""
    /\ \A u \in UserIds :
          IF dbObs.saved[u] = NoSaved
          THEN \A n \in notif : n.user_id # u
          ELSE \E n \in notif :
                  /\ n.user_id = u
                  /\ n.email = dbObs.saved[u].email
                  /\ n.notification_type = dbObs.saved[u].notification_type
                  /\ n.enabled = dbObs.saved[u].enabled

\* C17: there is at most one notification_settings row per user; it holds the
\* email, type and enabled flag of that user's most recent successful
\* save_notification_settings call; its notification_type is one of 'both',
\* 'buy', 'sell', any other submitted value being stored as 'both'; a call
\* without an email, and every other failing call, stores nothing.
C17_Settings == [][C17_Step]_vars /\ []C17_Rows

\* a later call of a user who already had a row submitted an unknown type,
\* which was stored as 'both'
C17_Witness ==
    \E p \in Procs :
        /\ HandlerDone(p, "save_notification_settings")
        /\ hLoc[p].call >= 2
        /\ hResp[p].status = 200
        /\ hLoc[p].arg.t = "weekly"
        /\ Cardinality(notif) = 2
        /\ \E n \in notif : n.user_id = hLoc[p].arg.user_id /\ n.notification_type = "both"

\* the checks of buy_crypto_with_paypal, in order
BuyCheckList(i) ==
    << i.amount > 0 /\ i.coin_amount > 0,
       i.coin_id # "",
       i.price # 0,
       Abs(i.amount - i.coin_amount * i.price) <= 1,
       i.state = "approved",
       i.total = i.amount,
       i.execute_ok >>

BuyCheckDetail ==
    << <<"Monto invalido">>,
       <<"Coin ID es requerido">>,
       <<"No se pudo obtener el precio de la criptomoneda">>,
       <<"El monto no coincide con el calculo">>,
       <<"El pago no fue aprobado por PayPal">>,
       <<"El monto no coincide con la transaccion de PayPal">>,
       <<"Error al ejecutar el pago", Colon, " ", "Error desconocido">> >>

AllPassed(i) == i.find_ok /\ \A k \in 1..7 : BuyCheckList(i)[k]

\* the first check of the list that input i fails (8: none)
FirstFailed(i) == Min({k \in 1..7 : ~BuyCheckList(i)[k]} \cup {8})

C19_Step ==
    /\ \A p \in Procs :
          ( /\ hLoc[p].h = "buy_crypto_with_paypal"
            /\ hPc[p] = "buy_checks"
            /\ hPc'[p] # "buy_checks" ) =>
               LET i == hLoc[p].arg.i
                   f == FirstFailed(i)
               IN  /\ transactions' = transactions
                   /\ crypto' = crypto
                   /\ IF AllPassed(i)
                      THEN hPc'[p] = "buy_record"
                      ELSE /\ hPc'[p] = "done"
                           /\ hResp'[p].status # 200
                           /\ (f <= 4 \/ (f <= 7 /\ i.find_ok)) =>
                                 IsSuffixOf(BuyCheckDetail[f], hResp'[p].tokens)
    /\ transactions' # transactions =>
          \E p \in Procs :
              /\ hPc[p] = "buy_record"
              /\ AllPassed(hLoc[p].arg.i)
              /\ transactions' \ transactions
                   = {t \in transactions' : t.by = hLoc[p].call}
    /\ crypto' # crypto =>
          \E p \in Procs :
              /\ hPc[p] = "cb_upsert"
              /\ AllPassed(hLoc[p].arg.i)
              /\ \E t \in transactions : t.by = hLoc[p].call

C19_Rows ==
    \A p \in Procs :
        ( /\ HandlerDone(p, "buy_crypto_with_paypal")
          /\ ~AllPassed(hLoc[p].arg.i) ) =>
             /\ hResp[p].status # 200
             /\ \A t \in transactions : t.by # hLoc[p].call

C20_Validation ==
    \A p \in Procs :
        HandlerDone(p, "buy_crypto_with_paypal") =>
            LET i == hLoc[p].arg.i
                f == FirstFailed(i)
            IN  /\ f = 1 => hResp[p].status = 400 /\ hResp[p].tokens = <<"Monto invalido">>
                /\ f = 2 => hResp[p].status = 400 /\ hResp[p].tokens = <<"Coin ID es requerido">>
                /\ f = 3 => hResp[p].status = 404


----------------------------------------------------------------------------
(* Properties of the alert handler, the rate limiters and the token prices *)

\* the admission table: 'both' admits BUY and SELL, 'buy' only BUY, 'sell'
\* only SELL
TypeAdmits(notification_type, signal_type) ==
    \/ notification_type = "both" /\ signal_type \in {"BUY", "SELL"}
    \/ notification_type = "buy"  /\ signal_type = "BUY"
    \/ notification_type = "sell" /\ signal_type = "SELL"

\* the settings rows send_ema_alert_notification of p found, or would find
EmaFound(p) ==
    IF At(p, "ema_send") THEN {hLoc[p].arg.settings}
    ELSE {[email |-> n.email, notification_type |-> n.notification_type,
           enabled |-> n.enabled] : n \in {m \in notif : m.user_id = hLoc[p].arg.user_id}}

\* the user of p has an enabled settings row whose type admits the signal
EmaAdmitted(p) ==
    \E n \in EmaFound(p) :
       n.enabled = "True" /\ TypeAdmits(n.notification_type, hLoc[p].arg.signal_type)

\* every email went out for an enabled row whose type admits the signal
C21_MailsAdmitted ==
    \A m \in dbObs.mails :
       m.settings.enabled = "True" /\ TypeAdmits(m.settings.notification_type, m.signal_type)

\* a step of the alert handler of p that answers or sends
EmaStep(p) ==
    /\ hLoc[p].h = "send_ema_alert_notification"
    /\ hPc[p] \notin {"idle", "done"}
    /\ hPc'[p] = "done"

\* C21 as stated: an alert email is sent only for an enabled settings row
\* whose type admits the signal, and a request whose user has no such row
\* sends nothing and is answered with success = false
C21_AlertGate ==
    [][ /\ dbObs'.mails # dbObs.mails => \E p \in Procs : EmaStep(p) /\ EmaAdmitted(p)
        /\ \A p \in Procs :
             EmaStep(p) /\ ~EmaAdmitted(p)
               => dbObs'.mails = dbObs.mails /\ hResp'[p].success = "False" ]_vars

\* C21 amended: an alert email is sent only for an enabled settings row whose
\* type admits the signal; a request with all four fields and signal BUY or
\* SELL whose user has no such row sends nothing and is answered with
\* success = false; a request with a field missing or another signal sends
\* nothing and is answered with HTTP 500
C21_AlertGateValid ==
    [][ /\ dbObs'.mails # dbObs.mails => \E p \in Procs : EmaStep(p) /\ EmaAdmitted(p)
        /\ \A p \in Procs :
             EmaStep(p) /\ ~EmaAdmitted(p)
               => /\ dbObs'.mails = dbObs.mails
                  /\ IF hLoc[p].arg.complete /\ hLoc[p].arg.signal_type \in {"BUY", "SELL"}
                     THEN hResp'[p].success = "False" /\ hResp'[p].status = 200
                     ELSE hResp'[p].status = 500 ]_vars

C21_Alert == C21_AlertGateValid /\ []C21_MailsAdmitted

\* a request was refused because the stored type does not admit its signal,
\* and an email was sent for a row of type 'sell'
C21_Witness ==
    /\ \E p \in Procs : hPc[p] = "done" /\ hResp[p].detail = "Tipo de notificacion no permitido"
    /\ \E m \in dbObs.mails : m.settings.notification_type = "sell"


\* the requests of ip accepted so far with a timestamp inside the window at t
AcceptedInWindow(ip, t) ==
    {i \in DOMAIN dbObs.accepted :
        dbObs.accepted[i].ip = ip /\ t - dbObs.accepted[i].t < RlTimeWindow}

\* a call of the in-memory limiter for client ip
RateLimitStep(ip) ==
    /\ dbObs'.hits = dbObs.hits + 1
    /\ hLoc'[Solo].h = "rate_limit"
    /\ hLoc'[Solo].arg.ip = ip

\* C22: the in-memory limiter accepts a request exactly when fewer than
\* max_requests accepted requests of its IP lie inside the window; a refused
\* request gets 429 and is not recorded; after the call the log of the IP
\* holds at most max_requests timestamps, all inside the window, and the logs
\* of the other IPs are unchanged
C22_RateLimit ==
    [][ \A ip \in ClientIps :
          RateLimitStep(ip) =>
            LET ok == Cardinality(AcceptedInWindow(ip, now)) < RlMaxRequests
                log == LogOf(request_logs', ip)
            IN  /\ hResp'[Solo].status = IF ok THEN 200 ELSE 429
                /\ ok <=> Len(dbObs'.accepted) = Len(dbObs.accepted) + 1
                /\ ~ok => /\ dbObs'.accepted = dbObs.accepted
                          /\ Len(log) <= Len(LogOf(request_logs, ip))
                /\ ok => log[Len(log)] = now
                /\ Len(log) <= RlMaxRequests
                /\ \A i \in 1..Len(log) : log[i] <= now /\ now - log[i] < RlTimeWindow
                /\ \A o \in ClientIps \ {ip} :
                      LogOf(request_logs', o) = LogOf(request_logs, o) ]_vars

\* a request was refused and, once the window had passed, a later request of
\* the same IP was accepted
C22_Witness ==
    /\ hLoc[Solo].h = "rate_limit"
    /\ hResp[Solo].status = 200
    /\ Len(dbObs.accepted) = RlMaxRequests + 1
    /\ dbObs.hits = RlMaxRequests + 2
    /\ \A i \in DOMAIN dbObs.accepted : dbObs.accepted[i].ip = hLoc[Solo].arg.ip


\* C23: for any interleaving of concurrent requests the counter stored for a
\* key of the Redis-backed limiters never exceeds max_requests
C23_CounterBound ==
    \A k \in DOMAIN redis.data : redis.data[k].val <= RlMaxRequests

\* C24: every counter key the Redis-backed limiter writes or increments
\* carries an expiry of at most time_window from now
C24_KeysExpire ==
    \A k \in DOMAIN redis.data :
       redis.data[k].exp # NoExpiry /\ redis.data[k].exp <= now + RlTimeWindow

\* the identifier of the wrapper call of p is rate-limited: its counter has
\* reached max_requests
RlLimited(p) ==
    redis.client /\ redis_get(redis, hLoc[p].arg.key) >= RlMaxRequests

\* C25: when the wrapper of the rate_limit decorator is done, the handler
\* was invoked if the identifier was not rate-limited, and the request was
\* answered with 429 and Retry-After = time_window if it was
C25_Decorator ==
    [][ \A p \in Procs :
          /\ hLoc'[p].h = "wrapper"
          /\ hPc[p] # "done"
          /\ hPc'[p] = "done"
          => IF RlLimited(p)'
             THEN /\ hResp'[p].status = 429
                  /\ hResp'[p].ret = RlTimeWindow
                  /\ dbObs'.invoked = dbObs.invoked
             ELSE dbObs'.invoked = dbObs.invoked + 1 ]_vars


\* C26: when the CoinGecko lookup failed or omitted the coin of a token whose
\* symbol is in the fallback table, the token is priced with the fallback
\* price of its symbol and its value_usd is amount_float times that price,
\* which is not zero
C26_FallbackBySymbol ==
    \A p \in Procs :
       hPc[p] = "done" /\ hLoc[p].h = "_add_real_token_prices" /\ hResp[p].error # "cached"
         => \A i \in 1..Len(hResp[p].priced) :
               LET tk == hResp[p].priced[i]
                   o == hLoc[p].arg.o
               IN  /\ tk.symbol \in DOMAIN fallback_prices
                   /\ o.raises \/ symbol_to_coingecko(tk.symbol) \in o.omitted
                   => /\ tk.price_usd = fallback_prices[tk.symbol]
                      /\ tk.value_usd = tk.amount_float * fallback_prices[tk.symbol]
                      /\ tk.value_usd # 0


\* C27: for any interleaving of concurrent update_user_balance calls on one
\* user, once every call has returned the stored balance is the initial
\* balance (0.00) plus the deposits minus the withdrawals that returned
\* successfully, and the stored balance is never negative
C27_NoLostUpdate ==
    /\ StoredUsd(balances, 1) >= 0
    /\ (\A p \in Procs : hPc[p] \in {"idle", "done"})
         => StoredUsd(balances, 1) = dbObs.net[1]


====
